---- MODULE Spec2Model ----
(***************************************************************************)
(* Verification model of the gemini-playground request gateway:            *)
(*   - the configuration store and its in-memory cache (kv_manager.ts),    *)
(*   - the round-robin credential allocator getNextAvailableApiKey,        *)
(*   - the request pipeline handleForwardedRequest (forwarder/handler.ts), *)
(*   - the alt-chat stream transformer and the finish-reason mapping.      *)
(***************************************************************************)
EXTENDS Integers, Sequences, FiniteSets, TLC

(***************************************************************************)
(* Bounds of the model                                                     *)
(***************************************************************************)
MaxPool == 3
MaxCursor == 3
MaxCalls == 6

(***************************************************************************)
(* Values                                                                  *)
(***************************************************************************)
\* credentials that may be stored in the primary pool
CredNames == <<"A", "B", "C", "D", "E">>
PoolCreds == {CredNames[i] : i \in 1..MaxPool}
\* an absent string value (null)
NoKey == "null"
\* the cursor entry is absent from the store (result.value is null)
NoIndex == -1

\* an optional value: <<>> is "no entry", <<v>> is an entry holding v
Absent == <<>>
Some(v) == <<v>>

RECURSIVE SeqsUpTo(_, _)
SeqsUpTo(S, n) ==
    IF n = 0 THEN {<<>>}
    ELSE LET shorter == SeqsUpTo(S, n - 1)
         IN shorter \cup {Append(s, x) : s \in {t \in shorter : Len(t) = n - 1}, x \in S}

Range(s) == {s[i] : i \in 1..Len(s)}
IsDistinctSeq(s) == \A i, j \in 1..Len(s) : i # j => s[i] # s[j]
Count(s, x) == Cardinality({i \in 1..Len(s) : s[i] = x})

\* a stored record of credentials (Record<string, string>): its entries, in
\* the order Object.values and Object.keys list them
Entry(id, key) == [id |-> id, key |-> key]
ObjectValues(record) == [i \in 1..Len(record) |-> record[i].key]
ObjectKeys(record) == [i \in 1..Len(record) |-> record[i].id]

\* identifiers under which a credential that is already stored is stored again
AliasNames == <<"a", "b", "c", "d", "e">>

\* the record holding the credentials t in this order: a credential is stored
\* under itself, as the admin API stores it (part_007 lines 160-164), and a
\* repeated credential under another identifier
RecordOf(t) ==
    [i \in 1..Len(t) |->
        Entry(IF \E h \in 1..(i - 1) : t[h] = t[i] THEN AliasNames[i] ELSE t[i], t[i])]

\* the pools up to renaming of credentials: the first entry is "A" and every
\* later entry is a credential already present or the next unused one, so
\* that pools with repeated credentials are covered
IsPoolShape(t) ==
    \A i \in 1..Len(t) :
       \E j \in 1..(1 + Cardinality({t[h] : h \in 1..(i - 1)})) : t[i] = CredNames[j]

PoolShapes(n) == {RecordOf(t) : t \in {u \in SeqsUpTo(PoolCreds, n) : IsPoolShape(u)}}

\* the pools of distinct credentials with at least one entry
DistinctPools(n) ==
    {RecordOf(t) : t \in {u \in SeqsUpTo(PoolCreds, n) : Len(u) >= 1 /\ IsDistinctSeq(u)}}

Min(a, b) == IF a < b THEN a ELSE b

IsPrefix(s, t) == Len(s) <= Len(t) /\ s = SubSeq(t, 1, Len(s))

VARIABLES
    \* persistent store (Deno KV)
    kvTrigger,      \* SINGLE_TRIGGER_KEY_KEY: NoKey or the trigger key
    kvPool,         \* API_KEYS_KEY: the stored record, as a sequence of entries
    kvIndex,        \* API_KEY_POLL_INDEX_KEY: NoIndex or the stored cursor
    kvFallback,     \* FALLBACK_API_KEY_KEY: NoKey or the fallback credential
    kvModels,       \* SECONDARY_POOL_MODEL_NAMES_KEY: set of model names
    kvThreshold,    \* FAILURE_THRESHOLD_KEY: 0 when absent, else the number
    \* in-memory cache: one optional entry per cached key
    cache,
    \* sequential allocation driver
    allocLog,       \* credentials returned by the calls made so far
    \* one request in handleForwardedRequest
    pc,             \* position of the handler
    rq,             \* the request: presented key, model name, local rejection
    mode,           \* "none", "pool" or "passthrough"
    hs,             \* handler locals of the pool branch
    al,             \* locals of the getNextAvailableApiKey call in progress
    calls,          \* executeApiCall invocations so far: credential and outcome
    resp,           \* the response returned, Absent until the handler returns
    \* one alt-chat stream: iterableToReadableStream piped through the transformer
    tr,             \* fields of the GeminiToOpenAIStreamTransformer
    fed,            \* native chunks the upstream iterator has yielded so far
    out,            \* frames the transformer has enqueued; those still queued
                    \* when the stream errors or is cancelled are discarded
    pipe,           \* the pipes of the stream: the number of native chunks
                    \* handed to transform, and of frames the client has read
    phase,          \* "open", "closed", "errored" or "cancelled"
    iter,           \* the upstream iterator: "open", "done" (next() answered
                    \* done), "threw" (next() rejected) or "returned"
                    \* (return() was invoked)
    \* one application of geminiFinishReasonToOpenAI
    frIn,           \* its arguments: the raw reason and the candidate's parts
    frOut,          \* its result, Pending until it is applied
    \* one application of a routing or translation function
    fnIn,           \* its arguments
    fnOut,          \* its result, Absent until it is applied
    \* the caller's connection
    dc,             \* whether the caller has disconnected, and the request's
                    \* progress at that moment
    \* concurrent callers of getNextAvailableApiKey
    cl,             \* for each caller, the locals of its call in progress
    \* configuration reads and writes in progress (kv_manager.ts getters, setters)
    ops             \* the locals of each reader's get and of each
                    \* administrator call in progress

kvVars == <<kvTrigger, kvPool, kvIndex, kvFallback, kvModels, kvThreshold, cache>>
reqVars == <<pc, rq, mode, hs, al, calls, resp>>
rotVars == <<allocLog>>
streamVars == <<tr, fed, out, pipe, phase, iter>>
finVars == <<frIn, frOut>>
pureVars == <<fnIn, fnOut>>
connVars == <<dc>>
callVars == <<cl>>
opVars == <<ops>>
vars == <<kvTrigger, kvPool, kvIndex, kvFallback, kvModels, kvThreshold, cache,
          allocLog, pc, rq, mode, hs, al, calls, resp, tr, fed, out, pipe, phase, iter,
          frIn, frOut, fnIn, fnOut, dc, cl, ops>>

\* the most candidates one native chunk carries, and so the choice indexes
MaxCandidates == 2
ChoiceIndexes == 0..(MaxCandidates - 1)
\* usageMetadata of a native chunk; present = FALSE when the chunk has none
NoUsage == [present |-> FALSE, prompt |-> 0, response |-> 0, thoughts |-> 0, total |-> 0]
\* an OpenAIUsage value, or null (present = FALSE)
NullUsage == [present |-> FALSE, prompt_tokens |-> 0, completion_tokens |-> 0,
              total_tokens |-> 0, reasoning_tokens |-> 0]
Pending == "pending"

\* the fields of a transformer just constructed (part_001 lines 192-194)
NewTransformer ==
    [isFirst |-> [i \in ChoiceIndexes |-> Absent],
     finalUsageData |-> NullUsage,
     acc |-> [i \in ChoiceIndexes |-> NoKey]]

\* nothing has passed through the pipes of a stream just built
NoPipe == [xf |-> 0, read |-> 0]

\* the parts of the state a specification does not use stay at these values
StreamIdle ==
    /\ tr = NewTransformer
    /\ fed = <<>>
    /\ out = <<>>
    /\ pipe = NoPipe
    /\ phase = "idle"
    /\ iter = "open"

FinishIdle ==
    /\ frIn = [reason |-> NoKey, parts |-> <<>>]
    /\ frOut = Pending

\* the caller is connected
Connected == [gone |-> FALSE, calls |-> 0, count |-> 0, cursor |-> NoIndex]

\* callers of getNextAvailableApiKey that run concurrently
NCallers == 2
Callers == 1..NCallers

\* locals of one getNextAvailableApiKey call: the pool it read, the number of
\* compare-and-set attempts, the cursor entry read by the current attempt
\* (its value, and whether it was there), whether a commit succeeded, and the
\* credential returned; for the record, the cursor the last commit or
\* non-atomic read found stored, and the cursor value the call wrote
NoCall == [pc |-> "idle", got |-> Absent, keys |-> <<>>, attempts |-> 0, entry |-> NoIndex,
           seen |-> "none", committed |-> FALSE, ret |-> NoKey,
           stored |-> NoIndex, wrote |-> NoIndex]

\* a write or delete of the cursor entry gives it a new versionstamp: an entry
\* read before it no longer passes check(); an entry read as absent has no
\* versionstamp and passes check() whenever the entry is absent
Staled(call) == IF call.seen = "current" THEN [call EXCEPT !.seen = "stale"] ELSE call

\* readers of the configuration getters, and no get or set in progress
NReaders == 2
Readers == 1..NReaders
NoGet == [pc |-> "idle", key |-> "none", value |-> NoKey, quiet |-> FALSE]
\* administrator calls (the setters and clear functions of kv_manager.ts)
\* that run concurrently, and the locals of one such call: the operation, the
\* cached entry it is about, its arguments, the record of credentials or the
\* Set of model names it holds, and the store keys it has yet to delete
NWriters == 2
Writers == 1..NWriters
NoEdit == [pc |-> "idle", op |-> "none", ent |-> "none", id |-> NoKey, key |-> NoKey,
           rec |-> <<>>, names |-> {}, todo |-> <<>>]
\* edits counts the configuration changes started so far
NoOps == [rd |-> [r \in Readers |-> NoGet],
          ad |-> [w \in Writers |-> NoEdit], edits |-> 0]

FnIdle ==
    /\ fnIn = [fn |-> "none"]
    /\ fnOut = Absent
    /\ dc = Connected
    /\ cl = [c \in Callers |-> NoCall]
    /\ ops = NoOps

(***************************************************************************)
(* kv_manager.ts: cache                                                    *)
(***************************************************************************)
EmptyCache ==
    [trigger |-> Absent, api_keys |-> Absent, fallback |-> Absent,
     models |-> Absent, threshold |-> Absent]

\* getCache: the entry's value when present and not expired, else null.
\* An entry whose TTL has lapsed is deleted on access, which is the same as
\* the entry being absent; a miss is reported as null (never undefined).
getCache(c, k) == c[k]

setCache(c, k, v) == [c EXCEPT ![k] = Some(v)]

clearCache(c, k) == [c EXCEPT ![k] = Absent]

(***************************************************************************)
(* kv_manager.ts: the caching getters                                      *)
(***************************************************************************)
\* the JavaScript value undefined, which getCache never returns
Undefined == "undefined"

\* the threshold used when none is stored (result.value ?? 5)
DefaultThreshold == 5

\* what the getter of an entry makes of kv.get: result.value || {} (pool),
\* result.value ?? 5, result.value || null, new Set(result.value || [])
StoreRead(k) ==
    CASE k = "api_keys" -> kvPool
      [] k = "threshold" -> IF kvThreshold = 0 THEN DefaultThreshold ELSE kvThreshold
      [] k = "fallback" -> kvFallback
      [] k = "trigger" -> kvTrigger
      [] k = "models" -> kvModels

\* what getCache hands the getter: the cached value, or null
Cached(k) == IF getCache(cache, k) # Absent THEN getCache(cache, k)[1] ELSE NoKey

\* the getter's test on it: `if (cached)` (pool: a record is truthy; fallback
\* model set: a Set is truthy), `cached !== null` (threshold),
\* `cached !== undefined` (trigger key, fallback key)
ReturnsCached(k) ==
    CASE k = "api_keys" -> getCache(cache, k) # Absent
      [] k = "threshold" -> getCache(cache, k) # Absent
      [] k = "models" -> getCache(cache, k) # Absent
      [] k = "fallback" -> Cached(k) # Undefined
      [] k = "trigger" -> Cached(k) # Undefined

\* One call of a caching getter by a caller.  When the test on the cache
\* fails the getter awaits kv.get, and other calls run until it resumes; got
\* is Absent as long as the caller has not awaited kv.get of this call, and
\* else holds the value kv.get resolved to.
\* the getter has something to return
CanReturn(k, got) == got # Absent \/ ReturnsCached(k)

\* the value it returns: after kv.get the value read, whatever the cache
\* holds by then
ReturnValue(k, got) == IF got # Absent THEN got[1] ELSE Cached(k)

\* the cache as the getter leaves it: setCache(key, value) after kv.get
CacheOnReturn(k, got) == IF got # Absent THEN setCache(cache, k, got[1]) ELSE cache

\* getApiKeys (lines 321-330)
getApiKeys(got) == ReturnValue("api_keys", got)

\* what a getter that runs with no other call at its await gets from kv.get:
\* nothing on a cache hit, else what is stored as it starts
Uninterrupted(k) == IF ReturnsCached(k) THEN Absent ELSE Some(StoreRead(k))

(***************************************************************************)
(* kv_manager.ts: getNextAvailableApiKey                                   *)
(***************************************************************************)
maxAttempts == 5

\* lines 413-418: a null cursor reads as 0, an out-of-range cursor as 0;
\* and the same reading an out-of-range cursor as the last position
ActualIndexClamped(currentIndex, len) ==
    LET idx == IF currentIndex = NoIndex THEN 0 ELSE currentIndex
    IN IF idx >= len THEN len - 1 ELSE IF idx < 0 THEN 0 ELSE idx

ActualIndex(currentIndex, len) ==
    LET idx == IF currentIndex = NoIndex THEN 0 ELSE currentIndex
    IN IF idx >= len \/ idx < 0 THEN 0 ELSE idx

\* line 420: apiKeyValues[actualCurrentIndex] (0-based in the source); and the
\* same always taking the first credential
KeyAtFirst(apiKeyValues, actualIndex) == apiKeyValues[1]

KeyAt(apiKeyValues, actualIndex) == apiKeyValues[actualIndex + 1]

NextIndexStuck(actualIndex, len) == actualIndex % len

\* line 421
NextIndex(actualIndex, len) == (actualIndex + 1) % len

\* line 410: while (!committed && attempts < maxAttempts), and the same
\* allowing one attempt more
AttemptsLeftOneMore(attempts) == attempts <= maxAttempts

AttemptsLeft(attempts) == attempts < maxAttempts

\* lines 423-426: atomic().check(currentEntry) passes when the cursor entry
\* still has the versionstamp that was read; and the same never failing
CheckPassesAlways(seen, stored) == TRUE

CheckPasses(seen, stored) ==
    \/ seen = "current" /\ stored # NoIndex
    \/ seen = "absent" /\ stored = NoIndex

(***************************************************************************)
(* kv_manager.ts: trigger key, fallback key, fallback models, threshold    *)
(***************************************************************************)
\* what getCache hands back for a string-valued key: the value, or null
CachedString(c, k) == IF getCache(c, k) # Absent THEN getCache(c, k)[1] ELSE NoKey

\* getTriggerKey: `if (cached !== undefined) return cached`; only past that
\* test is the store read (result.value || null) and the value cached
getTriggerKey ==
    LET cached == CachedString(cache, "trigger")
    IN IF cached # Undefined THEN cached ELSE kvTrigger

cacheAfterGetTriggerKey ==
    LET cached == CachedString(cache, "trigger")
    IN IF cached # Undefined THEN cache ELSE setCache(cache, "trigger", kvTrigger)

\* isValidTriggerKey(providedKey); presented keys are already trimmed
isValidTriggerKey(providedKey) ==
    IF providedKey = NoKey \/ providedKey = ""
    THEN FALSE
    ELSE getTriggerKey # NoKey /\ getTriggerKey = providedKey

\* getFallbackApiKey: same shape as getTriggerKey; and a getter that hands
\* back the stored key
getFallbackApiKeyStored == kvFallback

getFallbackApiKey ==
    LET cached == CachedString(cache, "fallback")
    IN IF cached # Undefined THEN cached ELSE kvFallback

cacheAfterGetFallbackApiKey ==
    LET cached == CachedString(cache, "fallback")
    IN IF cached # Undefined THEN cache ELSE setCache(cache, "fallback", kvFallback)

\* getSecondaryPoolModelNames (lines 478-487)
getSecondaryPoolModelNames(got) == ReturnValue("models", got)

\* shouldUseFallbackKey(modelName) (lines 518-522)
shouldUseFallbackKey(modelName, got) ==
    IF modelName = NoKey THEN FALSE ELSE modelName \in getSecondaryPoolModelNames(got)

\* getFailureThreshold (lines 373-382)
getFailureThreshold(got) == ReturnValue("threshold", got)

(***************************************************************************)
(* kv_manager.ts: getNextAvailableApiKey, one call step by step: the calls *)
(* of other callers run at each of its awaits                              *)
(***************************************************************************)
\* lines 321-326 under line 399: getApiKeys misses the cache and awaits
\* kv.get; the record read is the one the await resolves to
CallGet(c) ==
    /\ cl[c].pc = "idle"
    /\ cl[c].got = Absent
    /\ ~ReturnsCached("api_keys")
    /\ cl' = [cl EXCEPT ![c].got = Some(StoreRead("api_keys"))]
    /\ UNCHANGED <<kvVars, reqVars, rotVars, streamVars, finVars, pureVars, connVars>>
    /\ UNCHANGED opVars

\* lines 398-404: getApiKeys returns and caches the pool; an empty pool
\* returns null at once
CallStart(c) ==
    /\ cl[c].pc = "idle"
    /\ CanReturn("api_keys", cl[c].got)
    /\ LET apiKeyValues == ObjectValues(getApiKeys(cl[c].got))
       IN /\ cache' = CacheOnReturn("api_keys", cl[c].got)
          /\ cl' = [cl EXCEPT ![c] =
                      IF Len(apiKeyValues) = 0
                      THEN [NoCall EXCEPT !.pc = "done"]
                      ELSE [NoCall EXCEPT !.pc = "loop", !.keys = apiKeyValues]]
    /\ UNCHANGED <<kvTrigger, kvPool, kvIndex, kvFallback, kvModels, kvThreshold>>
    /\ UNCHANGED <<reqVars, rotVars, streamVars, finVars, pureVars, connVars>>
    /\ UNCHANGED opVars

\* lines 410-413: one more attempt starts by reading the cursor entry
CallRead(c) ==
    /\ cl[c].pc = "loop"
    /\ AttemptsLeft(cl[c].attempts)
    /\ cl' = [cl EXCEPT ![c] =
                [@ EXCEPT !.attempts = @ + 1,
                          !.entry = kvIndex,
                          !.seen = IF kvIndex = NoIndex THEN "absent" ELSE "current",
                          !.pc = "commit"]]
    /\ UNCHANGED <<kvVars, reqVars, rotVars, streamVars, finVars, pureVars, connVars>>
    /\ UNCHANGED opVars

\* lines 415-434: the credential and the next index are computed from the
\* entry read, and the commit is tried; on success the credential is
\* returned, on failure the loop goes round again after the back-off; the
\* entry read is a local of the iteration
CallCommit(c) ==
    /\ cl[c].pc = "commit"
    /\ LET len == Len(cl[c].keys)
           actualCurrentIndex == ActualIndex(cl[c].entry, len)
           apiKeyToReturn == KeyAt(cl[c].keys, actualCurrentIndex)
           nextIndex == NextIndex(actualCurrentIndex, len)
       IN IF CheckPasses(cl[c].seen, kvIndex)
          THEN /\ kvIndex' = nextIndex
               /\ cl' = [d \in Callers |->
                           IF d = c
                           THEN [cl[c] EXCEPT !.committed = TRUE,
                                              !.ret = apiKeyToReturn,
                                              !.stored = kvIndex,
                                              !.wrote = nextIndex,
                                              !.entry = NoIndex,
                                              !.seen = "none",
                                              !.pc = "done"]
                           ELSE Staled(cl[d])]
               /\ al' = Staled(al)
          ELSE /\ kvIndex' = kvIndex
               /\ cl' = [cl EXCEPT ![c].pc = "loop",
                                   ![c].entry = NoIndex, ![c].seen = "none"]
               /\ al' = al
    /\ UNCHANGED <<kvTrigger, kvPool, kvFallback, kvModels, kvThreshold, cache>>
    /\ UNCHANGED <<pc, rq, mode, hs, calls, resp>>
    /\ UNCHANGED <<rotVars, streamVars, finVars, pureVars, connVars>>
    /\ UNCHANGED opVars

\* lines 436-444: after maxAttempts failed commits the cursor is read without
\* a commit and the credential it points at is returned
CallNonAtomic(c) ==
    /\ cl[c].pc = "loop"
    /\ ~AttemptsLeft(cl[c].attempts)
    /\ LET fallbackIndex == kvIndex
           actualFallbackIndex == ActualIndex(fallbackIndex, Len(cl[c].keys))
       IN cl' = [cl EXCEPT ![c] =
                   [@ EXCEPT !.ret = KeyAt(cl[c].keys, actualFallbackIndex),
                             !.stored = fallbackIndex,
                             !.pc = "done"]]
    /\ UNCHANGED <<kvVars, reqVars, rotVars, streamVars, finVars, pureVars, connVars>>
    /\ UNCHANGED opVars

\* the caller has its credential (or null) and may call again
CallReturn(c) ==
    /\ cl[c].pc = "done"
    /\ cl' = [cl EXCEPT ![c] = NoCall]
    /\ UNCHANGED <<kvVars, reqVars, rotVars, streamVars, finVars, pureVars, connVars>>
    /\ UNCHANGED opVars

CallerStep(c) ==
    \/ CallGet(c)
    \/ CallStart(c)
    \/ CallRead(c)
    \/ CallCommit(c)
    \/ CallNonAtomic(c)
    \/ CallReturn(c)

(***************************************************************************)
(* forwarder/handler.ts: responses                                         *)
(***************************************************************************)
\* outcome of one executeApiCall that reaches the upstream: a status, or a
\* thrown error
Thrown == 0
UpOutcomes == {200, 500, Thrown}
\* status with which executeApiCall (or the API handler it dispatches to)
\* rejects the request itself, before any upstream operation; 0 when it does not
LocalRejections == {0, 400}

\* a response: status, body, and whether the CORS headers were added.
\* body n > 0 is the body produced by the n-th executeApiCall of the request;
\* kind tells an upstream response from the handler's wrapping of a thrown
\* error, from a local rejection and from a message the handler synthesizes.
Response(status, body, kind) ==
    [status |-> status, body |-> body, kind |-> kind, cors |-> FALSE]

\* Response.ok
IsOk(r) == r.status >= 200 /\ r.status <= 299

\* utils.ts ensureCorsHeaders: same status and body, CORS headers present;
\* and the same leaving the headers as they are
ensureCorsHeadersSkipped(r) == r

ensureCorsHeaders(r) == [r EXCEPT !.cors = TRUE]

\* executeApiCall(apiKeyToUse), as the n-th call, with upstream outcome o:
\* the response, or Absent when the call throws
executeApiCall(n, o) ==
    IF rq.local # 0 THEN Some(Response(rq.local, n, "local"))
    ELSE IF o = Thrown THEN Absent
    ELSE Some(Response(o, n, "upstream"))

\* lines 185-187 and 210-212: a thrown error is wrapped in a 500 response
WrapThrown(n) == Response(500, n, "thrown")

\* lines 160 and 192-193: lastErrorResponse || new Response(..., 503)
FinalError(lastErr) ==
    IF lastErr # Absent THEN lastErr[1] ELSE Response(503, 0, "synth")

(***************************************************************************)
(* forwarder/handler.ts: handleForwardedRequest, pool branch               *)
(***************************************************************************)
\* the Authorization header: none, or a scheme and what follows it (trimmed)
NoHeader == [scheme |-> "none", key |-> ""]
\* a request: its two credential headers, the key getTriggerKeyFromRequest
\* extracts, the model name, and the status of a local rejection (0: none)
NoRequest == [auth |-> NoHeader, goog |-> NoKey, key |-> NoKey, model |-> NoKey,
              local |-> 0]
\* the handler's locals; got is what the kv.get of the caching getter the
\* handler is suspended in resolved to (Absent when it is in none); allocs
\* counts its getNextAvailableApiKey calls, the only writes of the cursor a
\* request makes; pool0 is the stored credentials when the request arrived
NoLocals == [useFallback |-> FALSE, fallbackSet |-> FALSE, limit |-> 0, count |-> 0,
             attempted |-> {}, lastErr |-> Absent, allocs |-> 0,
             pool0 |-> <<>>, got |-> Absent]
\* the locals of a getNextAvailableApiKey call: what the kv.get of its
\* getApiKeys resolved to (Absent: not awaited), Object.values of the record
\* returned, the attempts made, the cursor entry read by the attempt in
\* progress (its value, and whether it was there) and the credential returned
NoAlloc == [got |-> Absent, keys |-> <<>>, attempts |-> 0, entry |-> NoIndex,
            seen |-> "none", ret |-> NoKey]

ReqIdle ==
    /\ pc = "idle"
    /\ rq = NoRequest
    /\ mode = "none"
    /\ hs = NoLocals
    /\ al = NoAlloc
    /\ calls = <<>>
    /\ resp = Absent

\* model names a request may carry (NoKey: none could be extracted)
ModelNames == {"gemini-pro-preview"}
\* keys a caller may present
TriggerKeys == {"T"}
UserKeys == {"sk-user-direct"}
FallbackKeys == {"F"}
\* a header value of which String.prototype.trim leaves nothing and which
\* Headers.get keeps, such as a no-break space
Blank == " "
PresentedKeys == TriggerKeys \cup UserKeys \cup {"", Blank}
AuthHeaders ==
    {NoHeader} \cup [scheme : {"bearer", "basic"}, key : PresentedKeys]
\* the x-goog-api-key header as Headers.get hands it back: NoKey when absent
GoogHeaders == {NoKey} \cup PresentedKeys

\* String.prototype.trim on the header values considered
Trim(str) == IF str = Blank THEN "" ELSE str

\* utils.ts getTriggerKeyFromRequest (lines 3-13), and the same accepting any
\* scheme.  Headers.get hands back the value without leading and trailing
\* whitespace, so a header "Bearer " with nothing after the scheme (key "")
\* reads "Bearer", fails startsWith("bearer ") and leaves the choice to the
\* x-goog-api-key header; a value that trims to nothing is returned as "".
getTriggerKeyFromRequestAnyScheme(authHeader, googApiKeyHeader) ==
    IF authHeader.scheme # "none" /\ authHeader.key # "" THEN Trim(authHeader.key)
    ELSE IF googApiKeyHeader # NoKey /\ googApiKeyHeader # "" THEN Trim(googApiKeyHeader)
    ELSE NoKey

getTriggerKeyFromRequest(authHeader, googApiKeyHeader) ==
    IF authHeader.scheme = "bearer" /\ authHeader.key # "" THEN Trim(authHeader.key)
    ELSE IF googApiKeyHeader # NoKey /\ googApiKeyHeader # "" THEN Trim(googApiKeyHeader)
    ELSE NoKey

Return(r) ==
    /\ resp' = Some(ensureCorsHeaders(r))
    /\ pc' = "done"

\* number of getNextAvailableApiKey calls of the request, counted up to 2
Bump(n) == IF n < 2 THEN n + 1 ELSE n

\* the `await kv.get(...)` inside a caching getter the handler has called
\* (kv_manager.ts lines 325-326, 376-377, 481-482): the test on the cache
\* failed and the store is read; the getter caches and returns the value
\* when the handler takes its next step
KvGet(k) ==
    /\ hs.got = Absent
    /\ ~ReturnsCached(k)
    /\ hs' = [hs EXCEPT !.got = Some(StoreRead(k))]
    /\ UNCHANGED kvVars
    /\ UNCHANGED <<rotVars, streamVars, finVars, callVars, opVars, pureVars, connVars>>
    /\ UNCHANGED <<pc, rq, mode, al, calls, resp>>

\* the two ways a request carries the key k (utils.ts lines 3-13): after
\* "Bearer " in the Authorization header, or in the x-goog-api-key header
CredentialHeaders(k) ==
    { <<[scheme |-> "bearer", key |-> k], NoKey>>, <<NoHeader, k>> }

\* lines 19-27, 100-124: the key is taken from the request, isValidTriggerKey
\* accepts it (isTriggerAuth), the pool branch is entered and the model name
\* is extracted from the body or the path
PoolBegin ==
    /\ pc = "idle"
    /\ \E k \in TriggerKeys, m \in ModelNames \cup {NoKey}, l \in LocalRejections :
         \E h \in CredentialHeaders(k) :
            LET userProvidedKey == getTriggerKeyFromRequest(h[1], h[2])
            IN /\ isValidTriggerKey(userProvidedKey)
               /\ rq' = [auth |-> h[1], goog |-> h[2], key |-> userProvidedKey,
                         model |-> m, local |-> l]
               /\ cache' = cacheAfterGetTriggerKey
               /\ mode' = "pool"
               /\ hs' = [hs EXCEPT !.pool0 = ObjectValues(kvPool)]
               /\ pc' = IF m = NoKey THEN "threshold" ELSE "models"
    /\ UNCHANGED <<kvTrigger, kvPool, kvIndex, kvFallback, kvModels, kvThreshold>>
    /\ UNCHANGED <<rotVars, streamVars, finVars, callVars, opVars, pureVars, connVars, al, calls, resp>>

\* line 126, suspended in getSecondaryPoolModelNames
ModelsRead == pc = "models" /\ KvGet("models")

\* line 126: useFallback = await shouldUseFallbackKey(modelNameFromRequest)
FallbackCheck ==
    /\ pc = "models"
    /\ CanReturn("models", hs.got)
    /\ LET useFallback == shouldUseFallbackKey(rq.model, hs.got)
       IN /\ cache' = CacheOnReturn("models", hs.got)
          /\ hs' = [hs EXCEPT !.useFallback = useFallback, !.got = Absent]
          /\ pc' = IF useFallback THEN "fallback" ELSE "threshold"
    /\ UNCHANGED <<kvTrigger, kvPool, kvIndex, kvFallback, kvModels, kvThreshold>>
    /\ UNCHANGED <<rotVars, streamVars, finVars, callVars, opVars, pureVars, connVars, rq, mode, al, calls, resp>>

\* lines 128-149: the fallback credential is fetched and, when there is one,
\* the request is attempted with it
FallbackAttempt ==
    /\ pc = "fallback"
    /\ LET fallbackApiKey == getFallbackApiKey
           n == Len(calls) + 1
       IN /\ cache' = cacheAfterGetFallbackApiKey
          /\ hs' = [hs EXCEPT !.fallbackSet = (kvFallback # NoKey)]
          /\ IF fallbackApiKey # NoKey
             THEN \E o \in UpOutcomes :
                    LET r == executeApiCall(n, o)
                    IN /\ calls' = Append(calls, [key |-> fallbackApiKey,
                                                  status |-> IF r = Absent THEN Thrown
                                                             ELSE r[1].status,
                                                  via |-> "fallback"])
                       /\ IF r # Absent /\ IsOk(r[1])
                          THEN Return(r[1])
                          ELSE /\ pc' = "threshold"
                               /\ resp' = resp
             ELSE /\ pc' = "threshold"
                  /\ UNCHANGED <<calls, resp>>
    /\ UNCHANGED <<kvTrigger, kvPool, kvIndex, kvFallback, kvModels, kvThreshold>>
    /\ UNCHANGED <<rotVars, streamVars, finVars, callVars, opVars, pureVars, connVars, rq, mode, al>>

\* line 152, suspended in getFailureThreshold
ThresholdRead == pc = "threshold" /\ KvGet("threshold")

\* line 152: the retry budget is read once
ReadThreshold ==
    /\ pc = "threshold"
    /\ CanReturn("threshold", hs.got)
    /\ hs' = [hs EXCEPT !.limit = getFailureThreshold(hs.got), !.got = Absent]
    /\ cache' = CacheOnReturn("threshold", hs.got)
    /\ pc' = "loop"
    /\ UNCHANGED <<kvTrigger, kvPool, kvIndex, kvFallback, kvModels, kvThreshold>>
    /\ UNCHANGED <<rotVars, streamVars, finVars, callVars, opVars, pureVars, connVars, rq, mode, al, calls, resp>>

LoopGuardOffByOne(count, limit) == count <= limit

\* line 157: while (distinctKeysAttemptedCount < distinctKeysAttemptLimit)
LoopGuard(count, limit) == count < limit

\* lines 157, 192-194: the loop ends because the budget is used up
LoopExit ==
    /\ pc = "loop"
    /\ ~LoopGuard(hs.count, hs.limit)
    /\ Return(FinalError(hs.lastErr))
    /\ UNCHANGED kvVars
    /\ UNCHANGED <<rotVars, streamVars, finVars, callVars, opVars, pureVars, connVars, rq, mode, hs, al, calls>>

\* lines 158, 398-399: getNextAvailableApiKey is called and is suspended in
\* the kv.get of its getApiKeys
AllocRead ==
    /\ pc = "loop"
    /\ LoopGuard(hs.count, hs.limit)
    /\ al.got = Absent
    /\ ~ReturnsCached("api_keys")
    /\ al' = [NoAlloc EXCEPT !.got = Some(StoreRead("api_keys"))]
    /\ UNCHANGED kvVars
    /\ UNCHANGED <<rotVars, streamVars, finVars, callVars, opVars, pureVars, connVars>>
    /\ UNCHANGED <<pc, rq, mode, hs, calls, resp>>

\* lines 158, 398-404: getApiKeys returns the record, and an empty one makes
\* the call return null
AllocStart ==
    /\ pc = "loop"
    /\ LoopGuard(hs.count, hs.limit)
    /\ CanReturn("api_keys", al.got)
    /\ LET apiKeyValues == ObjectValues(getApiKeys(al.got))
       IN /\ cache' = CacheOnReturn("api_keys", al.got)
          /\ hs' = [hs EXCEPT !.allocs = Bump(hs.allocs)]
          /\ al' = [NoAlloc EXCEPT !.keys = apiKeyValues]
          /\ pc' = IF Len(apiKeyValues) = 0 THEN "check" ELSE "attempt"
    /\ UNCHANGED <<kvTrigger, kvPool, kvIndex, kvFallback, kvModels, kvThreshold>>
    /\ UNCHANGED <<rotVars, streamVars, finVars, callVars, opVars, pureVars, connVars, rq, mode, calls, resp>>

\* lines 410-413: one more attempt starts by reading the cursor entry
AllocCursor ==
    /\ pc = "attempt"
    /\ AttemptsLeft(al.attempts)
    /\ al' = [al EXCEPT !.attempts = @ + 1,
                        !.entry = kvIndex,
                        !.seen = IF kvIndex = NoIndex THEN "absent" ELSE "current"]
    /\ pc' = "commit"
    /\ UNCHANGED kvVars
    /\ UNCHANGED <<rotVars, streamVars, finVars, callVars, opVars, pureVars, connVars, rq, mode, hs, calls, resp>>

\* lines 415-434: the credential and the next index are computed from the
\* entry read, and the commit is tried; on success the credential is
\* returned, on failure (the entry was written or deleted since it was read)
\* the loop goes round again after the back-off
AllocCommit ==
    /\ pc = "commit"
    /\ LET len == Len(al.keys)
           actualCurrentIndex == ActualIndex(al.entry, len)
           apiKeyToReturn == KeyAt(al.keys, actualCurrentIndex)
           nextIndex == NextIndex(actualCurrentIndex, len)
       IN IF CheckPasses(al.seen, kvIndex)
          THEN /\ kvIndex' = nextIndex
               /\ al' = [al EXCEPT !.ret = apiKeyToReturn,
                                   !.entry = NoIndex, !.seen = "none"]
               /\ cl' = [c \in Callers |-> Staled(cl[c])]
               /\ pc' = "check"
          ELSE /\ kvIndex' = kvIndex
               /\ al' = [al EXCEPT !.entry = NoIndex, !.seen = "none"]
               /\ cl' = cl
               /\ pc' = "attempt"
    /\ UNCHANGED <<kvTrigger, kvPool, kvFallback, kvModels, kvThreshold, cache>>
    /\ UNCHANGED <<rotVars, streamVars, finVars, opVars, pureVars, connVars, rq, mode, hs, calls, resp>>

\* lines 436-444: after maxAttempts failed commits the cursor is read without
\* a commit and the credential it points at is returned
AllocNonAtomic ==
    /\ pc = "attempt"
    /\ ~AttemptsLeft(al.attempts)
    /\ al' = [al EXCEPT !.ret = KeyAt(al.keys, ActualIndex(kvIndex, Len(al.keys)))]
    /\ pc' = "check"
    /\ UNCHANGED kvVars
    /\ UNCHANGED <<rotVars, streamVars, finVars, callVars, opVars, pureVars, connVars, rq, mode, hs, calls, resp>>

\* line 163: attemptedKeysInThisRequest.has(apiKeyFromPool); and the same
\* never recognising a credential
AlreadyTriedNever(apiKeyFromPool, attempted) == FALSE

AlreadyTried(apiKeyFromPool, attempted) == apiKeyFromPool \in attempted

\* line 164, suspended in the kv.get of getApiKeys
CheckRead ==
    /\ pc = "check"
    /\ al.ret # NoKey
    /\ AlreadyTried(al.ret, hs.attempted)
    /\ KvGet("api_keys")

\* lines 159-173: no credential, an already-tried credential, or a new one
CheckKey ==
    /\ pc = "check"
    /\ IF al.ret = NoKey
       THEN /\ Return(FinalError(hs.lastErr))
            /\ UNCHANGED <<hs, cache>>
       ELSE IF AlreadyTried(al.ret, hs.attempted)
       THEN /\ CanReturn("api_keys", hs.got)
            /\ LET totalApiKeysInPool == Len(ObjectValues(getApiKeys(hs.got)))
               IN /\ cache' = CacheOnReturn("api_keys", hs.got)
                  /\ hs' = [hs EXCEPT !.got = Absent]
                  /\ IF Cardinality(hs.attempted) >= totalApiKeysInPool
                        /\ totalApiKeysInPool > 0
                     THEN Return(FinalError(hs.lastErr))
                     ELSE /\ pc' = "loop"
                          /\ resp' = resp
       ELSE /\ hs' = [hs EXCEPT !.attempted = hs.attempted \cup {al.ret},
                                !.count = hs.count + 1]
            /\ pc' = "call"
            /\ UNCHANGED <<cache, resp>>
    /\ UNCHANGED <<kvTrigger, kvPool, kvIndex, kvFallback, kvModels, kvThreshold>>
    /\ UNCHANGED <<rotVars, streamVars, finVars, callVars, opVars, pureVars, connVars, rq, mode, al, calls>>

\* lines 181, 184: lastErrorResponse is overwritten by each failed attempt;
\* and the same keeping the first error recorded
RecordErrorFirst(prev, r) == IF prev # Absent THEN prev ELSE Some(r)

RecordError(prev, r) == Some(r)

\* what the upstream call of an attempt may answer: anything, unless the
\* response stream has been built on its answer (part_001 lines 99-117)
CallOutcomes == IF phase = "idle" THEN UpOutcomes ELSE {200}

\* lines 175-189: the request is attempted with the allocated credential
PoolCall ==
    /\ pc = "call"
    /\ \E o \in CallOutcomes :
         LET n == Len(calls) + 1
             r == executeApiCall(n, o)
         IN /\ calls' = Append(calls, [key |-> al.ret,
                                       status |-> IF r = Absent THEN Thrown
                                                  ELSE r[1].status,
                                       via |-> "pool"])
            /\ IF r # Absent /\ IsOk(r[1])
               THEN /\ Return(r[1])
                    /\ hs' = hs
               ELSE /\ hs' = [hs EXCEPT !.lastErr =
                                 RecordError(hs.lastErr,
                                     IF r = Absent THEN WrapThrown(n) ELSE r[1])]
                    /\ pc' = "loop"
                    /\ resp' = resp
    /\ UNCHANGED kvVars
    /\ UNCHANGED <<rotVars, streamVars, finVars, callVars, opVars, pureVars, connVars, rq, mode, al>>

MaxBudget == 2

InitStore ==
    /\ kvPool \in PoolShapes(MaxPool)
    /\ kvIndex \in NoIndex..Min(Len(kvPool), MaxCursor)
    /\ kvFallback \in FallbackKeys \cup {NoKey}
    /\ kvModels = {"gemini-pro-preview"}
    /\ kvThreshold \in 0..MaxBudget

\* the cache in which getTriggerKey finds the key: isValidTriggerKey accepts
\* a key only then, getTriggerKey returning what getCache hands it (lines
\* 286-287) without reading the store. No function of kv_manager.ts fills
\* this entry (C4): the behaviours of the pool branch start from a cache
\* that holds it, which is what the branch takes for granted
TriggerCached(key) == setCache(EmptyCache, "trigger", key)

InitPool ==
    /\ InitStore
    /\ kvTrigger \in TriggerKeys
    /\ cache = TriggerCached(kvTrigger)
    /\ allocLog = <<>>
    /\ ReqIdle
    /\ StreamIdle
    /\ FinishIdle
    /\ FnIdle

\* the steps of a request that allocates alone: the non-atomic read of
\* lines 436-444 takes maxAttempts writes of the cursor by others, each
\* between a read and the commit of the request
NextPool ==
    \/ PoolBegin
    \/ ModelsRead
    \/ FallbackCheck
    \/ FallbackAttempt
    \/ ThresholdRead
    \/ ReadThreshold
    \/ LoopExit
    \/ AllocRead
    \/ AllocStart
    \/ AllocCursor
    \/ AllocCommit
    \/ CheckKey
    \/ PoolCall

\* the requests that allocate from the same cursor while the request runs
OtherRequests == {1}

\* the request, and the getNextAvailableApiKey calls of other requests at
\* any moment
NextPoolShared ==
    \/ NextPool
    \/ AllocNonAtomic
    \/ \E c \in OtherRequests : CallerStep(c)

SpecPool == InitPool /\ [][NextPoolShared]_vars

\* the distinct credentials passed to executeApiCall so far
CredentialsUsed == {calls[i].key : i \in 1..Len(calls)}

\* the retry budget N of the request: the value read at line 152, and before
\* that line the value it will read
RetryBudget ==
    IF hs.limit > 0 THEN hs.limit
    ELSE IF CanReturn("threshold", hs.got) /\ pc = "threshold"
    THEN getFailureThreshold(hs.got)
    ELSE StoreRead("threshold")

\* C1 (At-most-N-distinct): a pool-mode request passes at most RetryBudget
\* distinct credentials to the upstream call, whatever the pool, the
\* fallback configuration and the upstream outcomes.
AtMostNDistinct ==
    mode = "pool" => Cardinality(CredentialsUsed) <= RetryBudget

\* the budget of 2 used up on a pool of 3: two distinct credentials, both failed
AtMostNDistinctWitness ==
    /\ mode = "pool"
    /\ pc = "done"
    /\ Len(kvPool) = 3
    /\ hs.limit = 2
    /\ Cardinality(CredentialsUsed) = 2
    /\ \A i \in 1..Len(calls) : calls[i].status # 200

\* C3 (Fallback routing), as claimed: when the model is in the fallback model
\* set and a fallback key is stored, the first upstream call uses the
\* fallback key; on 2xx the response is delivered without any allocation (so
\* without a write of the cursor); on failure the pool is tried within the
\* budget.
FallbackRouting ==
    (mode = "pool" /\ hs.useFallback /\ hs.fallbackSet /\ Len(calls) >= 1) =>
        /\ calls[1].key = kvFallback
        /\ calls[1].via = "fallback"
        /\ calls[1].status = 200 =>
              /\ pc = "done"
              /\ resp # Absent /\ resp[1].status = 200
              /\ hs.allocs = 0
              /\ al = NoAlloc
        /\ Cardinality({calls[i].key : i \in 2..Len(calls)}) <= RetryBudget

\* C6 (Pool exhaustion), as claimed: pool {A,B,C}, budget 2, every call
\* answered 500: exactly 2 calls with distinct credentials and a final 503
\* carrying the second error's body; and whenever the budget is consumed
\* without a 2xx the final status is 503.
BudgetConsumed ==
    /\ mode = "pool"
    /\ pc = "done"
    /\ hs.limit > 0
    /\ hs.count = hs.limit
    /\ \A i \in 1..Len(calls) : calls[i].status # 200

ScenarioS4 ==
    /\ mode = "pool"
    /\ pc = "done"
    /\ ObjectValues(kvPool) = <<"A", "B", "C">>
    /\ hs.limit = 2
    /\ rq.local = 0
    /\ \A i \in 1..Len(calls) : calls[i].status = 500

PoolExhaustion503 ==
    /\ ScenarioS4 =>
          /\ Len(calls) = 2
          /\ calls[1].key # calls[2].key
          /\ resp[1].status = 503
          /\ resp[1].body = 2
    /\ BudgetConsumed => resp[1].status = 503

\* C20 (Final response of the pool loop): when the pool loop ends without a
\* 2xx, by the budget being used up, by every credential of the pool having
\* been tried or by the pool being empty, the response has the status and body
\* of the error response of the last attempt made in the loop (for an attempt
\* that threw, the 500 recorded for it), and it is the handler's 503 exactly
\* when the loop made no attempt.
LoopEndedWithout2xx ==
    /\ mode = "pool"
    /\ pc = "done"
    /\ \A i \in 1..Len(calls) : calls[i].status # 200

LoopAttempts == {i \in 1..Len(calls) : calls[i].via = "pool"}

PoolLoopFinalResponse ==
    LoopEndedWithout2xx =>
        IF LoopAttempts = {}
        THEN /\ resp[1].status = 503
             /\ resp[1].kind = "synth"
        ELSE LET last == CHOOSE i \in LoopAttempts : \A j \in LoopAttempts : j <= i
             IN /\ resp[1].body = last
                /\ resp[1].kind # "synth"
                /\ resp[1].status = IF calls[last].status = Thrown THEN 500
                                    ELSE calls[last].status

\* the loop ended because the pool's only credential had been tried, with
\* the budget not used up, and the response is that attempt's error
PoolLoopFinalResponseWitness ==
    /\ LoopEndedWithout2xx
    /\ Len(kvPool) = 1
    /\ Len(calls) = 1
    /\ hs.count < hs.limit
    /\ calls[1].status = 500
    /\ resp[1].status = 500
    /\ resp[1].body = 1

\* C25 (Skip already-tried credentials): in the pool loop of one request no
\* credential is passed to the upstream call twice, and the retry budget
\* consumed always equals the number of distinct credentials tried, each of
\* them called once (the one just allocated being about to be called): an
\* allocation that returns a credential already tried adds neither a call nor
\* a unit of budget.
PoolCallKeys == {calls[i].key : i \in LoopAttempts}

SkipAlreadyTried ==
    mode = "pool" =>
        /\ \A i, j \in LoopAttempts : i # j => calls[i].key # calls[j].key
        /\ hs.count = Cardinality(hs.attempted)
        /\ IF pc = "call"
           THEN /\ al.ret \notin PoolCallKeys
                /\ hs.attempted = PoolCallKeys \cup {al.ret}
           ELSE hs.attempted = PoolCallKeys

\* after one failed call a second allocation returned the same credential
\* again: the loop went round with one call made and one unit of budget used
SkipAlreadyTriedWitness ==
    /\ mode = "pool"
    /\ pc = "loop"
    /\ hs.allocs = 2
    /\ Len(calls) = 1
    /\ hs.count = 1
    /\ hs.limit = 2
    /\ al.ret = calls[1].key

\* the pool-mode request with every step of the handler eventually taken:
\* each await of the loop (allocation, upstream call) returns
SpecPoolFair == SpecPool /\ WF_vars(NextPool \/ AllocNonAtomic)

\* C33 (Termination of the pool loop), as claimed: every pool-mode request
\* returns a response, whatever the pool holds (the same credential under two
\* identifiers included), whatever the retry budget and however other
\* requests' allocations interleave.
PoolLoopTerminates == (mode = "pool") ~> (pc = "done")

\* a pool-mode request for a model of the fallback set, the fallback key
\* stored being any key, a credential of the primary pool included
InitFallback ==
    /\ kvPool \in PoolShapes(MaxPool)
    /\ kvIndex \in NoIndex..Min(Len(kvPool), MaxCursor)
    /\ kvFallback \in FallbackKeys \cup Range(ObjectValues(kvPool))
    /\ kvModels = {"gemini-pro-preview"}
    /\ kvThreshold \in 0..MaxBudget
    /\ kvTrigger \in TriggerKeys
    /\ cache = TriggerCached(kvTrigger)
    /\ allocLog = <<>>
    /\ ReqIdle
    /\ StreamIdle
    /\ FinishIdle
    /\ FnIdle

SpecFallback == InitFallback /\ [][NextPool]_vars

\* C34 (No credential used twice per request): in one pool-mode request,
\* the fallback attempt counted with the primary-pool attempts, no
\* credential is passed to the upstream call more than once, also when the
\* fallback key is a member of the primary pool.
NoCredentialTwice ==
    mode = "pool" =>
        \A i, j \in 1..Len(calls) : i # j => calls[i].key # calls[j].key

\* a request for a model of the fallback set, the stored fallback key being
\* the first credential of the pool: the handler asked for the fallback key,
\* and the credential was called once, before another one
NoCredentialTwiceWitness ==
    /\ mode = "pool"
    /\ pc = "done"
    /\ hs.useFallback
    /\ hs.fallbackSet
    /\ Len(kvPool) >= 2
    /\ kvFallback = kvPool[1].key
    /\ Len(calls) = 2
    /\ calls[1].key = kvFallback
    /\ calls[2].key # kvFallback

\* C12 (Client-malformed requests are not retried), as claimed: a pool-mode
\* request that executeApiCall rejects as malformed has at most one credential
\* allocated and at most one call made for it, and is answered with that
\* rejection.
MalformedNotRetried ==
    (mode = "pool" /\ rq.local # 0) =>
        /\ hs.allocs <= 1
        /\ Len(calls) <= 1
        /\ (pc = "done" /\ Len(calls) = 1) => resp[1].status = rq.local

\* the caller disconnects while its pool-mode request is in flight. Nothing
\* in handleForwardedRequest reads request.signal or is told of the
\* disconnect, so the handler's state is as it was.
Disconnect ==
    /\ mode = "pool"
    /\ pc \notin {"idle", "done"}
    /\ ~dc.gone
    /\ dc' = [gone |-> TRUE, calls |-> Len(calls), count |-> hs.count, cursor |-> kvIndex]
    /\ UNCHANGED <<kvVars, reqVars, rotVars, streamVars, finVars, callVars, opVars, pureVars>>

InitCancel ==
    /\ kvTrigger \in TriggerKeys
    /\ kvPool = RecordOf(<<"A", "B", "C">>)
    /\ kvIndex = NoIndex
    /\ kvFallback \in FallbackKeys \cup {NoKey}
    /\ kvModels = {"gemini-pro-preview"}
    /\ kvThreshold \in 0..MaxBudget
    /\ cache = TriggerCached(kvTrigger)
    /\ allocLog = <<>>
    /\ ReqIdle
    /\ StreamIdle
    /\ FinishIdle
    /\ FnIdle

NextCancel ==
    \/ NextPool
    \/ Disconnect

SpecCancel == InitCancel /\ [][NextCancel]_vars

\* C14 (Cancellation), as claimed: after the caller has disconnected from a
\* pool-mode request in flight, the request allocates no further credential
\* (the cursor and the count of credentials tried stay as they were) and
\* makes no further upstream call.
CancellationStopsRetries ==
    dc.gone =>
        /\ Len(calls) = dc.calls
        /\ hs.count = dc.count
        /\ kvIndex = dc.cursor

(***************************************************************************)
(* kv_manager.ts: configuration changes made through the admin API, step   *)
(* by step: each `await` of a setter lets the requests and the other       *)
(* setters run                                                             *)
(***************************************************************************)
\* the most configuration changes started in one behaviour
MaxEdits == 2

\* Object.values and Object.keys list the properties whose name is an array
\* index first, in ascending order, and then the others in insertion order.
\* The array index an identifier is, or -1.
ArrayIndex(id) == CASE id = "1" -> 1 [] id = "2" -> 2 [] OTHER -> -1

\* Object.prototype.hasOwnProperty.call(record, id)
HasOwn(record, id) == \E i \in 1..Len(record) : record[i].id = id

\* record[id] = key: an existing property keeps its place
SetProperty(record, id, key) ==
    IF HasOwn(record, id)
    THEN [i \in 1..Len(record) |->
             IF record[i].id = id THEN Entry(id, key) ELSE record[i]]
    ELSE IF ArrayIndex(id) >= 0
    THEN LET before == Cardinality({i \in 1..Len(record) :
                                      /\ ArrayIndex(record[i].id) >= 0
                                      /\ ArrayIndex(record[i].id) < ArrayIndex(id)})
         IN SubSeq(record, 1, before) \o <<Entry(id, key)>>
              \o SubSeq(record, before + 1, Len(record))
    ELSE Append(record, Entry(id, key))

\* delete record[id]
DeleteProperty(record, id) ==
    LET Keep(e) == e.id # id
    IN SelectSeq(record, Keep)

\* the cached entry an edit is made on
EntryOf(op) == IF op \in {"add", "remove"} THEN "api_keys" ELSE "models"

\* the edit of addApiKeys (lines 338-345), of removeApiKey (line 357), of
\* addSecondaryPoolModelNames (line 499) called with one name, and of
\* removeSecondaryPoolModelName (line 507)
Edited(op, value, id, key) ==
    CASE op = "add" -> SetProperty(value, id, key)
      [] op = "remove" -> DeleteProperty(value, id)
      [] op = "addname" -> value \cup {Trim(key)}
      [] op = "removename" -> value \ {Trim(key)}

\* the call holds value: a record of credentials or a Set of model names
Holding(edit, value) ==
    IF edit.ent = "api_keys" THEN [edit EXCEPT !.rec = value]
    ELSE [edit EXCEPT !.names = value]

Held(edit) == IF edit.ent = "api_keys" THEN edit.rec ELSE edit.names

\* a get of entry k that a set overlaps is no longer one that started after
\* the last set completed
Overlapped(k) ==
    [r \in Readers |->
        IF ops.rd[r].key = k THEN [ops.rd[r] EXCEPT !.quiet = FALSE] ELSE ops.rd[r]]

\* the getter has returned value to addApiKeys, removeApiKey,
\* addSecondaryPoolModelNames or removeSecondaryPoolModelName, and value is
\* the object the cache holds: the edit is made on it in place, so the cache
\* holds the edited value, and what kv.set is called with is the value as
\* edited; removeApiKey of an identifier the record does not have returns at
\* once
EditInPlace(w, op, id, key, value) ==
    LET ent == EntryOf(op)
        started == ops.ad[w].pc = "idle"
    IN IF op = "remove" /\ ~HasOwn(value, id)
       THEN /\ cache' = setCache(cache, ent, value)
            /\ ops' = [ops EXCEPT !.ad[w] = NoEdit,
                                  !.edits = IF started THEN @ + 1 ELSE @]
       ELSE /\ cache' = setCache(cache, ent, Edited(op, value, id, key))
            /\ ops' = [ops EXCEPT !.ad[w] =
                                     Holding([NoEdit EXCEPT !.pc = "write", !.op = op,
                                                            !.ent = ent, !.id = id,
                                                            !.key = key],
                                             Edited(op, value, id, key)),
                                  !.rd = IF started THEN Overlapped(ent) ELSE @,
                                  !.edits = IF started THEN @ + 1 ELSE @]

\* an administrator call that starts takes the first place that is free: the
\* calls in progress differ by nothing but their locals
FreePlace(w) ==
    /\ ops.ad[w].pc = "idle"
    /\ \A v \in Writers : v < w => ops.ad[v].pc # "idle"

\* addApiKeys, removeApiKey, addSecondaryPoolModelNames and
\* removeSecondaryPoolModelName up to their first await that yields: on a
\* cache hit the edit, on a miss the kv.get of the getter
EditStart(w, op, id, key) ==
    /\ FreePlace(w)
    /\ ops.edits < MaxEdits
    /\ LET ent == EntryOf(op)
       IN IF ReturnsCached(ent)
          THEN EditInPlace(w, op, id, key, Cached(ent))
          ELSE /\ ops' = [ops EXCEPT !.ad[w] =
                                        Holding([NoEdit EXCEPT !.pc = "read", !.op = op,
                                                               !.ent = ent, !.id = id,
                                                               !.key = key],
                                                StoreRead(ent)),
                                     !.rd = Overlapped(ent),
                                     !.edits = @ + 1]
               /\ cache' = cache
    /\ UNCHANGED <<kvTrigger, kvPool, kvIndex, kvFallback, kvModels, kvThreshold>>
    /\ UNCHANGED <<reqVars, rotVars, streamVars, finVars, callVars, pureVars, connVars>>

\* addApiKeys({id: key}) (lines 333-349)
addApiKeys(w, id, key) == EditStart(w, "add", id, key)

\* removeApiKey(id) (lines 352-361)
removeApiKey(w, id) == EditStart(w, "remove", id, NoKey)

\* addSecondaryPoolModelNames([name]) (lines 496-502)
addSecondaryPoolModelNames(w, name) == EditStart(w, "addname", NoKey, name)

\* removeSecondaryPoolModelName(name) (lines 504-510)
removeSecondaryPoolModelName(w, name) == EditStart(w, "removename", NoKey, name)

\* the getter resumes after its kv.get: setCache(key, value), and the edit
EditResume(w) ==
    /\ ops.ad[w].pc = "read"
    /\ EditInPlace(w, ops.ad[w].op, ops.ad[w].id, ops.ad[w].key, Held(ops.ad[w]))
    /\ UNCHANGED <<kvTrigger, kvPool, kvIndex, kvFallback, kvModels, kvThreshold>>
    /\ UNCHANGED <<reqVars, rotVars, streamVars, finVars, callVars, pureVars, connVars>>

\* `await kv.set(API_KEYS_KEY, currentApiKeysRecord)` (lines 347, 358) and
\* `await kv.set(SECONDARY_POOL_MODEL_NAMES_KEY, Array.from(currentModelNames))`
\* (lines 500, 508): the value as it was edited is stored
EditWrite(w) ==
    /\ ops.ad[w].pc = "write"
    /\ kvPool' = IF ops.ad[w].ent = "api_keys" THEN ops.ad[w].rec ELSE kvPool
    /\ kvModels' = IF ops.ad[w].ent = "models" THEN ops.ad[w].names ELSE kvModels
    /\ ops' = [ops EXCEPT !.ad[w].pc = "clear"]
    /\ UNCHANGED <<kvTrigger, kvIndex, kvFallback, kvThreshold, cache>>
    /\ UNCHANGED <<reqVars, rotVars, streamVars, finVars, callVars, pureVars, connVars>>

\* clearAllApiKeys (lines 363-368) up to the end of its first await: the
\* record is deleted
clearAllApiKeys(w) ==
    /\ FreePlace(w)
    /\ ops.edits < MaxEdits
    /\ kvPool' = <<>>
    /\ ops' = [ops EXCEPT !.ad[w] = [NoEdit EXCEPT !.pc = "cursor", !.op = "clear",
                                                   !.ent = "api_keys"],
                          !.edits = @ + 1]
    /\ UNCHANGED <<kvTrigger, kvIndex, kvFallback, kvModels, kvThreshold, cache>>
    /\ UNCHANGED <<reqVars, rotVars, streamVars, finVars, callVars, pureVars, connVars>>

\* line 366: the cursor entry is deleted
ClearCursor(w) ==
    /\ ops.ad[w].pc = "cursor"
    /\ kvIndex' = NoIndex
    /\ ops' = [ops EXCEPT !.ad[w].pc = "clear"]
    /\ cl' = [c \in Callers |-> Staled(cl[c])]
    /\ al' = Staled(al)
    /\ UNCHANGED <<kvTrigger, kvPool, kvFallback, kvModels, kvThreshold, cache>>
    /\ UNCHANGED <<pc, rq, mode, hs, calls, resp>>
    /\ UNCHANGED <<rotVars, streamVars, finVars, pureVars, connVars>>

\* the values the setter of an entry is called with
SetValues(k) ==
    CASE k = "threshold" -> 1..MaxBudget
      [] k = "fallback" -> FallbackKeys \cup {NoKey}
      [] k = "models" -> {{}, {"gemini-pro-preview"}}

\* setFailureThreshold (lines 384-388), setFallbackApiKey (460-469; a null or
\* empty key deletes the entry, as clearFallbackApiKey does, 471-475) and
\* setSecondaryPoolModelNames (489-494; an empty list reads back as
\* clearAllSecondaryPoolModelNames leaves the entry, 512-516), up to the end
\* of `await kv.set(...)` or `await kv.delete(...)`
SetWrite(w, k, v) ==
    /\ FreePlace(w)
    /\ ops.edits < MaxEdits
    /\ kvThreshold' = IF k = "threshold" THEN v ELSE kvThreshold
    /\ kvFallback' = IF k = "fallback" THEN v ELSE kvFallback
    /\ kvModels' = IF k = "models" THEN v ELSE kvModels
    /\ ops' = [ops EXCEPT !.ad[w] = [NoEdit EXCEPT !.pc = "clear", !.op = "set",
                                                   !.ent = k],
                          !.rd = Overlapped(k),
                          !.edits = @ + 1]
    /\ UNCHANGED <<kvTrigger, kvPool, kvIndex, cache>>
    /\ UNCHANGED <<reqVars, rotVars, streamVars, finVars, callVars, pureVars, connVars>>

\* the store keys clearAllForwardingData deletes after the administrator's
\* password hash (lines 528-533), in this order
WipeKeys == <<"trigger", "api_keys", "index", "fallback", "models", "threshold">>

\* clearAllForwardingData (lines 525-540) up to the end of its first await:
\* the password hash is deleted
clearAllForwardingData(w) ==
    /\ FreePlace(w)
    /\ ops.edits < MaxEdits
    /\ ops' = [ops EXCEPT !.ad[w] = [NoEdit EXCEPT !.pc = "wipe", !.op = "wipe",
                                                   !.todo = WipeKeys],
                          !.rd = [r \in Readers |-> [ops.rd[r] EXCEPT !.quiet = FALSE]],
                          !.edits = @ + 1]
    /\ UNCHANGED kvVars
    /\ UNCHANGED <<reqVars, rotVars, streamVars, finVars, callVars, pureVars, connVars>>

\* lines 528-533: the next `await kv.delete(...)` of clearAllForwardingData
WipeDelete(w) ==
    /\ ops.ad[w].pc = "wipe"
    /\ LET k == Head(ops.ad[w].todo)
           rest == Tail(ops.ad[w].todo)
       IN /\ kvTrigger' = IF k = "trigger" THEN NoKey ELSE kvTrigger
          /\ kvPool' = IF k = "api_keys" THEN <<>> ELSE kvPool
          /\ kvIndex' = IF k = "index" THEN NoIndex ELSE kvIndex
          /\ kvFallback' = IF k = "fallback" THEN NoKey ELSE kvFallback
          /\ kvModels' = IF k = "models" THEN {} ELSE kvModels
          /\ kvThreshold' = IF k = "threshold" THEN 0 ELSE kvThreshold
          /\ cl' = IF k = "index" THEN [c \in Callers |-> Staled(cl[c])] ELSE cl
          /\ al' = IF k = "index" THEN Staled(al) ELSE al
          /\ ops' = [ops EXCEPT !.ad[w].todo = rest,
                                !.ad[w].pc = IF rest = <<>> THEN "clear" ELSE "wipe"]
    /\ cache' = cache
    /\ UNCHANGED <<pc, rq, mode, hs, calls, resp>>
    /\ UNCHANGED <<rotVars, streamVars, finVars, pureVars, connVars>>

\* the cache entries clearAllForwardingData clears (lines 535-539)
WipeCleared ==
    clearCache(clearCache(clearCache(clearCache(clearCache(cache,
        "trigger"), "api_keys"), "fallback"), "models"), "threshold")

\* the call resumes after its last await and returns: clearCache of its
\* entry (lines 348, 359, 367, 387, 468, 493, 501, 509), and for
\* clearAllForwardingData of the five entries (lines 535-539)
EditDone(w) ==
    /\ ops.ad[w].pc = "clear"
    /\ cache' = IF ops.ad[w].op = "wipe" THEN WipeCleared
                ELSE clearCache(cache, ops.ad[w].ent)
    /\ ops' = [ops EXCEPT !.ad[w] = NoEdit]
    /\ UNCHANGED <<kvTrigger, kvPool, kvIndex, kvFallback, kvModels, kvThreshold>>
    /\ UNCHANGED <<reqVars, rotVars, streamVars, finVars, callVars, pureVars, connVars>>

\* the steps of the pool changes in progress
EditStep(w) ==
    \/ EditResume(w)
    \/ EditWrite(w)
    \/ ClearCursor(w)
    \/ EditDone(w)

\* no set of entry k is in progress
NoWriteInProgress(k) ==
    \A w \in Writers :
        \/ ops.ad[w].pc = "idle"
        \/ ops.ad[w].op # "wipe" /\ ops.ad[w].ent # k

\* the admin API's POST /api/admin/api-keys stores each credential under
\* itself (part_007 lines 160-166), and its DELETE removes by that identifier
AdminAdd(w, key) == addApiKeys(w, key, key)

AdminRemove(w, key) == removeApiKey(w, key)

\* the credentials the administrator adds and removes
ConfigCreds == {"A", "1"}

InitConfig ==
    /\ kvTrigger \in TriggerKeys
    /\ kvPool = RecordOf(<<"A">>)
    /\ kvIndex = NoIndex
    /\ kvFallback = NoKey
    /\ kvModels = {"gemini-pro-preview"}
    /\ kvThreshold = MaxBudget
    /\ cache = TriggerCached(kvTrigger)
    /\ allocLog = <<>>
    /\ ReqIdle
    /\ StreamIdle
    /\ FinishIdle
    /\ FnIdle

\* one request, and the administrator's changes at any moment
NextConfig ==
    \/ NextPool
    \/ CheckRead
    \/ \E w \in Writers, key \in ConfigCreds : AdminAdd(w, key)
    \/ \E w \in Writers, key \in ConfigCreds : AdminRemove(w, key)
    \/ \E w \in Writers : clearAllApiKeys(w)
    \/ \E w \in Writers : EditStep(w)
    \/ \E w \in Writers, k \in {"threshold", "fallback", "models"} :
          \E v \in SetValues(k) : SetWrite(w, k, v)
    \/ \E w \in Writers, name \in ModelNames : addSecondaryPoolModelNames(w, name)
    \/ \E w \in Writers, name \in ModelNames : removeSecondaryPoolModelName(w, name)
    \/ \E w \in Writers : clearAllForwardingData(w)
    \/ \E w \in Writers : WipeDelete(w)

SpecConfig == InitConfig /\ [][NextConfig]_vars

\* C16 (Request-lifetime snapshot), as claimed: whatever configuration
\* changes are made while a pool-mode request is in progress, every
\* credential the request takes from the pool belongs to the pool as it was
\* when the request started.
RequestLifetimeSnapshot ==
    mode = "pool" =>
        \A i \in 1..Len(calls) :
            calls[i].via = "pool" => calls[i].key \in Range(hs.pool0)

(***************************************************************************)
(* forwarder/handler.ts: handleForwardedRequest from the start, and the    *)
(* passthrough branch                                                      *)
(***************************************************************************)
\* the target path after the prefix is stripped: empty or "/", or a path of
\* one of the classes of classifyRequestPath
PathKinds == {"root", "unknown", "native", "openai", "openai_image"}

\* lines 11-102, 196-198: authentication, path checks, body pre-read, and the
\* choice of the mode by isValidTriggerKey.  Nothing before line 100 reads or
\* writes the store or the cache, and getTriggerKey returns from its test on
\* the cache, so the awaits of these lines let no other call change what
\* the handler sees; the pool branch goes on at line 126 (FallbackCheck).
Begin ==
    /\ pc = "idle"
    /\ \E a \in AuthHeaders, g \in GoogHeaders, path \in PathKinds,
          bodyError \in BOOLEAN, m \in ModelNames \cup {NoKey},
          l \in LocalRejections :
         LET userProvidedKey == getTriggerKeyFromRequest(a, g)
             seen == [rq EXCEPT !.auth = a, !.goog = g, !.key = userProvidedKey]
         IN IF userProvidedKey = NoKey \/ userProvidedKey = ""
            THEN /\ Return(Response(401, 0, "synth"))
                 /\ rq' = seen
                 /\ hs' = [hs EXCEPT !.pool0 = ObjectValues(kvPool)]
                 /\ UNCHANGED <<mode, cache>>
            ELSE IF path = "root"
            THEN /\ Return(Response(400, 0, "synth"))
                 /\ rq' = seen
                 /\ hs' = [hs EXCEPT !.pool0 = ObjectValues(kvPool)]
                 /\ UNCHANGED <<mode, cache>>
            ELSE IF path = "unknown"
            THEN /\ Return(Response(404, 0, "synth"))
                 /\ rq' = seen
                 /\ hs' = [hs EXCEPT !.pool0 = ObjectValues(kvPool)]
                 /\ UNCHANGED <<mode, cache>>
            ELSE IF bodyError
            THEN /\ Return(Response(400, 0, "synth"))
                 /\ rq' = seen
                 /\ hs' = [hs EXCEPT !.pool0 = ObjectValues(kvPool)]
                 /\ UNCHANGED <<mode, cache>>
            ELSE /\ rq' = [seen EXCEPT !.model = m, !.local = l]
                 /\ cache' = cacheAfterGetTriggerKey
                 /\ resp' = resp
                 /\ IF isValidTriggerKey(userProvidedKey)
                    THEN /\ mode' = "pool"
                         /\ hs' = [hs EXCEPT !.pool0 = ObjectValues(kvPool)]
                         /\ pc' = IF m = NoKey THEN "threshold" ELSE "models"
                    ELSE /\ mode' = "passthrough"
                         /\ hs' = [hs EXCEPT !.pool0 = ObjectValues(kvPool)]
                         /\ pc' = "direct"
    /\ UNCHANGED <<kvTrigger, kvPool, kvIndex, kvFallback, kvModels, kvThreshold>>
    /\ UNCHANGED <<rotVars, streamVars, finVars, callVars, opVars, pureVars, connVars, al, calls>>

DirectResponseAs503(r, n) ==
    IF r = Absent THEN WrapThrown(n)
    ELSE IF IsOk(r[1]) THEN r[1] ELSE Response(503, n, "synth")

\* lines 200-214: what the passthrough branch returns for the outcome of
\* its single call
DirectResponse(r, n) == IF r = Absent THEN WrapThrown(n) ELSE r[1]

\* lines 196-215: the presented key is used as the credential, once
PassthroughCall ==
    /\ pc = "direct"
    /\ \E o \in UpOutcomes :
         LET n == Len(calls) + 1
             r == executeApiCall(n, o)
         IN /\ calls' = Append(calls, [key |-> rq.key,
                                       status |-> IF r = Absent THEN Thrown
                                                  ELSE r[1].status,
                                       via |-> "direct"])
            /\ Return(DirectResponse(r, n))
    /\ UNCHANGED kvVars
    /\ UNCHANGED <<rotVars, streamVars, finVars, callVars, opVars, pureVars, connVars, rq, mode, hs, al>>

\* kv_manager.ts setTriggerKey(key), completed before the request arrives:
\* a non-empty key is stored, an empty one deletes the entry; the cache
\* entry is cleared
setTriggerKey(key) ==
    /\ pc = "idle"
    /\ kvTrigger' = IF key # NoKey /\ key # "" THEN key ELSE NoKey
    /\ cache' = clearCache(cache, "trigger")
    /\ UNCHANGED <<kvPool, kvIndex, kvFallback, kvModels, kvThreshold>>
    /\ UNCHANGED <<rotVars, streamVars, finVars, callVars, opVars, pureVars, connVars, pc, rq, mode, hs, al, calls, resp>>

Init ==
    /\ InitStore
    /\ kvTrigger = NoKey
    /\ cache = EmptyCache
    /\ allocLog = <<>>
    /\ ReqIdle
    /\ StreamIdle
    /\ FinishIdle
    /\ FnIdle

Next ==
    \/ Begin
    \/ PassthroughCall
    \/ \E k \in TriggerKeys \cup {NoKey} : setTriggerKey(k)

Spec == Init /\ [][Next]_vars

\* C4 (Trigger key grants pool mode), as claimed: once a non-empty trigger
\* key is stored, isValidTriggerKey accepts it, a request presenting it is
\* served in pool mode and a request presenting another key in passthrough.
TriggerKeyGrantsPool ==
    (kvTrigger # NoKey /\ mode # "none") =>
        /\ isValidTriggerKey(kvTrigger)
        /\ mode = "pool" <=> rq.key = kvTrigger

\* C5 (Passthrough mode): a request whose presented key is not the trigger
\* key and that reaches the choice of mode is served in passthrough mode; a
\* passthrough request calls executeApiCall exactly once, with the presented
\* key, whatever the outcome; it never calls getNextAvailableApiKey and so
\* leaves the cursor alone; the response returned is the one of that call
\* (a thrown error being wrapped in a 500).
PassthroughOnce ==
    /\ (mode # "none" /\ rq.key # kvTrigger) => mode = "passthrough"
    /\ mode = "passthrough" =>
          /\ hs.allocs = 0
          /\ al = NoAlloc
          /\ \A i \in 1..Len(calls) : calls[i].key = rq.key
          /\ pc # "done" => calls = <<>>
          /\ pc = "done" =>
                /\ Len(calls) = 1
                /\ resp[1].body = 1
                /\ resp[1].cors
                /\ IF calls[1].status = Thrown
                   THEN resp[1].status = 500 /\ resp[1].kind = "thrown"
                   ELSE resp[1].status = calls[1].status
                        /\ resp[1].kind \in {"upstream", "local"}

\* a passthrough request whose single call was answered 500
PassthroughOnceWitness ==
    /\ mode = "passthrough"
    /\ pc = "done"
    /\ rq.key = "sk-user-direct"
    /\ kvTrigger = "T"
    /\ Len(calls) = 1
    /\ calls[1].status = 500
    /\ resp[1].status = 500

\* the handler with both of its branches: the mode chosen by
\* isValidTriggerKey (Begin), with the trigger key in the cache or not
InitGateway ==
    /\ InitStore
    /\ kvTrigger \in TriggerKeys
    /\ cache \in {EmptyCache, TriggerCached(kvTrigger)}
    /\ allocLog = <<>>
    /\ ReqIdle
    /\ StreamIdle
    /\ FinishIdle
    /\ FnIdle

NextGateway ==
    \/ Begin
    \/ PassthroughCall
    \/ NextPool

SpecGateway == InitGateway /\ [][NextGateway]_vars

\* C19 (CORS on every response): every response handleForwardedRequest
\* returns carries the CORS headers, and its status and body are those of the
\* response the headers were added to: the response of one of the request's
\* upstream calls (or the 500 wrapping of the error it threw), or one of the
\* handler's own 401, 400, 404 and 503 messages.
CorsOnEveryResponse ==
    resp # Absent =>
        LET r == resp[1]
        IN /\ r.cors
           /\ r.kind \in {"upstream", "local"} =>
                 /\ r.body \in 1..Len(calls)
                 /\ calls[r.body].status = r.status
           /\ r.kind = "thrown" =>
                 /\ r.body \in 1..Len(calls)
                 /\ calls[r.body].status = Thrown
                 /\ r.status = 500
           /\ r.kind = "synth" =>
                 /\ r.body = 0
                 /\ r.status \in {400, 401, 404, 503}

\* a pool-mode request has returned the error of its second, failed attempt
CorsOnEveryResponseWitness ==
    /\ mode = "pool"
    /\ pc = "done"
    /\ Len(calls) = 2
    /\ resp[1].status = 500
    /\ resp[1].body = 2
    /\ resp[1].cors

\* C11 (Missing credential): a request with neither an Authorization: Bearer
\* header nor an x-goog-api-key header is answered 401; executeApiCall and
\* getNextAvailableApiKey are never called for it, so that it leaves the
\* rotation cursor as it was.
MissingCredential ==
    (pc = "done" /\ rq.auth.scheme # "bearer" /\ rq.goog = NoKey) =>
        /\ resp # Absent /\ resp[1].status = 401
        /\ mode = "none"
        /\ calls = <<>>
        /\ hs.allocs = 0
        /\ al = NoAlloc

\* a request with a Basic Authorization header and no x-goog-api-key header
\* has been answered 401
MissingCredentialWitness ==
    /\ pc = "done"
    /\ rq.auth = [scheme |-> "basic", key |-> "sk-user-direct"]
    /\ rq.goog = NoKey
    /\ resp[1].status = 401

(***************************************************************************)
(* Sequential allocation: calls of getNextAvailableApiKey that do not      *)
(* overlap, so that each one commits its compare-and-set on the first try. *)
(***************************************************************************)
\* lines 321-326 under line 399: getApiKeys misses the cache and awaits
\* kv.get; the record read is the one the await resolves to
RotateRead ==
    /\ Len(allocLog) < MaxCalls
    /\ al.got = Absent
    /\ ~ReturnsCached("api_keys")
    /\ al' = [NoAlloc EXCEPT !.got = Some(StoreRead("api_keys"))]
    /\ UNCHANGED <<kvVars, rotVars, streamVars, finVars, callVars, opVars, pureVars, connVars>>
    /\ UNCHANGED <<pc, rq, mode, hs, calls, resp>>

\* lines 399-431: getApiKeys returns and caches; an empty pool returns null
\* and leaves the cursor alone; otherwise the cursor read at line 412 is the
\* one the commit of lines 423-426 finds, no other call having written it
RotateCall ==
    /\ Len(allocLog) < MaxCalls
    /\ CanReturn("api_keys", al.got)
    /\ LET apiKeyValues == ObjectValues(getApiKeys(al.got))
           len == Len(apiKeyValues)
           actual == ActualIndex(kvIndex, len)
       IN /\ cache' = CacheOnReturn("api_keys", al.got)
          /\ IF len = 0
             THEN /\ kvIndex' = kvIndex
                  /\ allocLog' = Append(allocLog, NoKey)
                  /\ cl' = cl
             ELSE /\ kvIndex' = NextIndex(actual, len)
                  /\ allocLog' = Append(allocLog, KeyAt(apiKeyValues, actual))
                  /\ cl' = [c \in Callers |-> Staled(cl[c])]
    /\ al' = NoAlloc
    /\ UNCHANGED <<kvTrigger, kvPool, kvFallback, kvModels, kvThreshold>>
    /\ UNCHANGED <<pc, rq, mode, hs, calls, resp>>
    /\ UNCHANGED <<streamVars, finVars, pureVars, connVars>>
    /\ UNCHANGED opVars

InitRotate ==
    /\ kvTrigger = NoKey
    /\ kvPool \in DistinctPools(MaxPool) \cup {<<>>}
    /\ kvIndex \in NoIndex..MaxCursor
    /\ kvFallback = NoKey
    /\ kvModels = {}
    /\ kvThreshold = 0
    /\ cache = EmptyCache
    /\ allocLog = <<>>
    /\ ReqIdle
    /\ StreamIdle
    /\ FinishIdle
    /\ FnIdle

NextRotate == RotateRead \/ RotateCall

SpecRotate == InitRotate /\ [][NextRotate]_vars

\* C2 (Rotation-progress): after K sequential committed allocations on an
\* unchanged pool of P distinct credentials, from any stored cursor, every
\* credential of the pool has been returned floor(K/P) or ceil(K/P) times.
RotationProgress ==
    LET K == Len(allocLog)
        P == Len(kvPool)
    IN \A c \in Range(ObjectValues(kvPool)) :
          Count(allocLog, c) \in {K \div P, (K + P - 1) \div P}

\* a pool of 3 served 5 times from an out-of-range cursor: both counts occur
RotationProgressWitness ==
    /\ Len(kvPool) = 3
    /\ Len(allocLog) = 5
    /\ \E c \in Range(ObjectValues(kvPool)) : Count(allocLog, c) = 1
    /\ \E c \in Range(ObjectValues(kvPool)) : Count(allocLog, c) = 2

(***************************************************************************)
(* Finish-reason mapping (openai utils, part_002 lines 170-191)            *)
(***************************************************************************)
\* the most Parts of a candidate
MaxParts == 2

\* a Part: its text ("" when it has none) and the name of its functionCall
\* (NoKey when it has none)
TextPart(t) == [text |-> t, fc |-> NoKey]
CallPart(f) == [text |-> "", fc |-> f]
PartValues == {TextPart("he"), TextPart("llo"), CallPart("f")}

\* JavaScript truthiness of a string | null | undefined value
Truthy(s) == s # NoKey /\ s # ""

\* String.prototype.toUpperCase and toLowerCase on the reasons of the model
CaseTable ==
    { <<"STOP", "STOP", "stop">>,
      <<"stop", "STOP", "stop">>,
      <<"MAX_TOKENS", "MAX_TOKENS", "max_tokens">>,
      <<"Max_Tokens", "MAX_TOKENS", "max_tokens">>,
      <<"SAFETY", "SAFETY", "safety">>,
      <<"RECITATION", "RECITATION", "recitation">>,
      <<"OTHER", "OTHER", "other">>,
      <<"UNKNOWN", "UNKNOWN", "unknown">>,
      <<"MODEL_UNSPECIFIED_FINISH_REASON", "MODEL_UNSPECIFIED_FINISH_REASON",
        "model_unspecified_finish_reason">>,
      <<"FINISH_REASON_UNSPECIFIED", "FINISH_REASON_UNSPECIFIED",
        "finish_reason_unspecified">>,
      <<"FUNCTION_CALL", "FUNCTION_CALL", "function_call">>,
      <<"BLOCKLIST", "BLOCKLIST", "blocklist">>,
      <<"Blocklist", "BLOCKLIST", "blocklist">> }
toUpperCase(s) == (CHOOSE t \in CaseTable : t[1] = s)[2]
toLowerCase(s) == (CHOOSE t \in CaseTable : t[1] = s)[3]

\* the raw reasons: absent, empty, and the strings of the table
RawReasons == {NoKey, ""} \cup {t[1] : t \in CaseTable}

\* the map literal of lines 180-186, as pairs
FinishMap ==
    { <<"STOP", "stop">>, <<"MAX_TOKENS", "length">>,
      <<"SAFETY", "content_filter">>, <<"RECITATION", "content_filter">>,
      <<"OTHER", "stop">>, <<"UNKNOWN", "stop">>,
      <<"MODEL_UNSPECIFIED_FINISH_REASON", "stop">>,
      <<"FINISH_REASON_UNSPECIFIED", "stop">>,
      <<"FUNCTION_CALL", "tool_calls">> }

\* parts.some(p => p.functionCall), and the same test never finding one
SomeFunctionCallBlind(parts) == FALSE

SomeFunctionCall(parts) == \E k \in 1..Len(parts) : parts[k].fc # NoKey

geminiFinishReasonToOpenAI(reason, parts) ==
    IF ~Truthy(reason) THEN NoKey
    ELSE IF SomeFunctionCall(parts) THEN "tool_calls"
    ELSE LET upperReason == toUpperCase(reason)
         IN IF \E m \in FinishMap : m[1] = upperReason
            THEN (CHOOSE m \in FinishMap : m[1] = upperReason)[2]
            ELSE toLowerCase(reason)

\* the function applied to the arguments drawn by InitFinish
ApplyFinishReason ==
    /\ frOut = Pending
    /\ frOut' = geminiFinishReasonToOpenAI(frIn.reason, frIn.parts)
    /\ UNCHANGED <<kvVars, reqVars, rotVars, streamVars, pureVars, connVars, callVars, opVars, frIn>>

\* a store no request is using
StoreIdle ==
    /\ kvTrigger = NoKey
    /\ kvPool = RecordOf(<<"A">>)
    /\ kvIndex = NoIndex
    /\ kvFallback = NoKey
    /\ kvModels = {"gemini-pro-preview"}
    /\ kvThreshold = 0
    /\ cache = EmptyCache
    /\ allocLog = <<>>

InitFinish ==
    /\ StoreIdle
    /\ ReqIdle
    /\ StreamIdle
    /\ frIn \in [reason : RawReasons, parts : SeqsUpTo(PartValues, MaxParts)]
    /\ frOut = Pending
    /\ FnIdle

NextFinish == ApplyFinishReason

SpecFinish == InitFinish /\ [][NextFinish]_vars

\* the reasons the mapping table lists, with the alt reason it gives each
ListedReason(reason) ==
    CASE reason \in {"STOP", "OTHER", "UNKNOWN", "MODEL_UNSPECIFIED_FINISH_REASON",
                     "FINISH_REASON_UNSPECIFIED"} -> "stop"
      [] reason = "MAX_TOKENS" -> "length"
      [] reason \in {"SAFETY", "RECITATION"} -> "content_filter"
      [] reason = "FUNCTION_CALL" -> "tool_calls"
      [] OTHER -> NoKey

\* some Part of the candidate given to the function carries a functionCall
CarriesFunctionCall == \E k \in DOMAIN frIn.parts : frIn.parts[k].fc # NoKey

\* C10 as stated (Finish-reason-mapping): the listed reasons map as the table
\* says, and whenever a Part carries a functionCall the result is "tool_calls"
\* whatever the raw reason, an absent one included.
FinishReasonMapping ==
    frOut # Pending =>
        /\ CarriesFunctionCall => frOut = "tool_calls"
        /\ (~CarriesFunctionCall /\ ListedReason(frIn.reason) # NoKey)
               => frOut = ListedReason(frIn.reason)

\* C10 as the code has it: an absent or empty raw reason maps to null even
\* when a Part carries a functionCall; a present reason maps to "tool_calls"
\* when a Part carries a functionCall, and otherwise as the table says.
FinishReasonMappingPresent ==
    frOut # Pending =>
        /\ ~Truthy(frIn.reason) => frOut = NoKey
        /\ (Truthy(frIn.reason) /\ CarriesFunctionCall)
               => frOut = "tool_calls"
        /\ (Truthy(frIn.reason) /\ ~CarriesFunctionCall
              /\ ListedReason(frIn.reason) # NoKey)
               => frOut = ListedReason(frIn.reason)

\* STOP on a candidate whose second Part is a functionCall has been mapped
FinishReasonMappingWitness ==
    /\ frIn.reason = "STOP"
    /\ frIn.parts = <<TextPart("he"), CallPart("f")>>
    /\ frOut = "tool_calls"

(***************************************************************************)
(* Alt-chat streaming: iterableToReadableStream piped through              *)
(* GeminiToOpenAIStreamTransformer (part_001 lines 159-330) with the       *)
(* candidate and usage translators (part_002 lines 193-263)                *)
(***************************************************************************)
\* the most native chunks the upstream iterator yields
MaxChunks == 3

\* handleOpenAIChatCompletion forces include_usage on (part_001 line 104)
include_usage == TRUE

\* native candidates and chunks
Candidate(parts, finishReason) == [parts |-> parts, finishReason |-> finishReason]
Chunk(candidates, promptFeedback, usageMetadata) ==
    [candidates |-> candidates, promptFeedback |-> promptFeedback,
     usageMetadata |-> usageMetadata]
Usage(p, r, t, tot) ==
    [present |-> TRUE, prompt |-> p, response |-> r, thoughts |-> t, total |-> tot]
UsageS3 == Usage(3, 2, 0, 5)
UsageThoughts == Usage(3, 5, 2, 10)

\* the native chunks of the model: one candidate with no Part, a text Part or
\* a functionCall Part, with or without a finish reason and usage; a candidate
\* of two text Parts; usage counting thought tokens; two candidates; and no
\* candidate, with or without promptFeedback ("block" has a blockReason)
Chunks ==
    { Chunk(<<Candidate(ps, fr)>>, "none", u) :
          ps \in {<<>>, <<TextPart("he")>>, <<TextPart("llo")>>, <<CallPart("f")>>},
          fr \in {NoKey, "STOP"},
          u \in {NoUsage, UsageS3} }
    \cup { Chunk(<<Candidate(<<TextPart("he"), TextPart("llo")>>, NoKey)>>, "none", NoUsage),
           Chunk(<<Candidate(<<TextPart("llo")>>, "MAX_TOKENS")>>, "none", UsageThoughts),
           Chunk(<<Candidate(<<TextPart("he")>>, NoKey),
                   Candidate(<<>>, "STOP")>>, "none", NoUsage),
           Chunk(<<Candidate(<<>>, "STOP"),
                   Candidate(<<TextPart("llo")>>, "STOP")>>, "none", UsageS3),
           Chunk(<<>>, "none", NoUsage),
           Chunk(<<>>, "block", NoUsage),
           Chunk(<<>>, "noblock", NoUsage) }

\* a key a JSON object does not have
Missing == "missing"

\* the deltas {role:"assistant"} and {}
RoleOnlyDelta == [role |-> "assistant", content |-> Missing, tool_calls |-> <<>>]
EmptyDelta == [role |-> Missing, content |-> Missing, tool_calls |-> <<>>]

\* an emitted SSE event: a chat.completion.chunk with its choices and usage
\* (id, model and created are the same on every chunk of a stream), or [DONE]
ChunkFrame(choices, usage) == [kind |-> "chunk", choices |-> choices, usage |-> usage]
DoneFrame == [kind |-> "done", choices |-> <<>>, usage |-> NullUsage]
Choice(index, delta, finish_reason) ==
    [index |-> index, delta |-> delta, finish_reason |-> finish_reason]

\* textContent += part.text over the Parts, and the functionCalls pushed
RECURSIVE TextContent(_)
TextContent(parts) ==
    IF parts = <<>> THEN "" ELSE Head(parts).text \o TextContent(Tail(parts))

RECURSIVE FunctionCalls(_)
FunctionCalls(parts) ==
    IF parts = <<>> THEN <<>>
    ELSE (IF Head(parts).fc # NoKey THEN <<Head(parts).fc>> ELSE <<>>)
            \o FunctionCalls(Tail(parts))

transformGeminiCandidateToOpenAIChoice(candidate, index) ==
    LET textContent == TextContent(candidate.parts)
        functionCalls == FunctionCalls(candidate.parts)
    IN Choice(index,
              [role |-> "assistant",
               content |-> IF textContent # "" THEN textContent ELSE NoKey,
               tool_calls |-> functionCalls],
              geminiFinishReasonToOpenAI(candidate.finishReason, candidate.parts))

transformGeminiUsageToOpenAI(usageMetadata) ==
    IF ~usageMetadata.present
    THEN [present |-> TRUE, prompt_tokens |-> 0, completion_tokens |-> 0,
          total_tokens |-> 0, reasoning_tokens |-> 0]
    ELSE LET visibleCompletionTokens == usageMetadata.response - usageMetadata.thoughts
         IN [present |-> TRUE,
             prompt_tokens |-> usageMetadata.prompt,
             completion_tokens |-> IF visibleCompletionTokens < 0 THEN 0
                                   ELSE visibleCompletionTokens,
             total_tokens |-> usageMetadata.total,
             reasoning_tokens |-> usageMetadata.thoughts]

\* isFirstContentChunkByChoiceIndex[i] once the prelude is out, and the same
\* assignment left undone
AfterPreludeKept == Some(TRUE)

AfterPrelude == Some(FALSE)

\* whether usage is attached to the chunk of a choice (line 243), and the
\* same test never passing
AttachUsageNever(finish_reason, usageMetadata) == FALSE

AttachUsage(finish_reason, usageMetadata) ==
    Truthy(finish_reason) /\ usageMetadata.present /\ include_usage

\* controller.enqueue(frame): the frame goes behind those already enqueued;
\* and the same putting it ahead of them
enqueueAhead(queue, frame) == <<frame>> \o queue

enqueue(queue, frame) == Append(queue, frame)

\* one turn of the loop over the candidates (lines 207-255); st holds the
\* transformer's fields and the frames enqueued so far
CandidateStep(st, chunk, i) ==
    LET candidate == chunk.candidates[i + 1]
        first0 == IF st.isFirst[i] = Absent THEN Some(TRUE) ELSE st.isFirst[i]
        choice == transformGeminiCandidateToOpenAIChoice(candidate, i)
        currentDelta == choice.delta
        hasContent == Truthy(currentDelta.content) \/ currentDelta.tool_calls # <<>>
        prelude == first0 = Some(TRUE) /\ hasContent
        first1 == IF prelude THEN AfterPrelude ELSE first0
        out1 == IF prelude
                THEN enqueue(st.out, ChunkFrame(<<Choice(i, RoleOnlyDelta, NoKey)>>, NullUsage))
                ELSE st.out
        emit == Truthy(currentDelta.role) \/ hasContent
        attach == AttachUsage(choice.finish_reason, chunk.usageMetadata)
        out2 == IF emit
                THEN enqueue(out1,
                        ChunkFrame(<<Choice(i, currentDelta, choice.finish_reason)>>,
                                   IF attach
                                   THEN transformGeminiUsageToOpenAI(chunk.usageMetadata)
                                   ELSE NullUsage))
                ELSE out1
    IN [isFirst |-> [st.isFirst EXCEPT ![i] = first1],
        finalUsageData |-> IF emit /\ attach THEN NullUsage ELSE st.finalUsageData,
        acc |-> IF Truthy(choice.finish_reason)
                THEN [st.acc EXCEPT ![i] = choice.finish_reason]
                ELSE st.acc,
        out |-> out2]

RECURSIVE CandidateLoop(_, _, _)
CandidateLoop(st, chunk, i) ==
    IF i >= Len(chunk.candidates) THEN st
    ELSE CandidateLoop(CandidateStep(st, chunk, i), chunk, i + 1)

\* line 284: isFirstContentChunkByChoiceIndex[0] = false ("mark as handled"),
\* and the same leaving the choice waiting for its first content
PromptHandledNot == Some(TRUE)

PromptHandled == Some(FALSE)

\* transform(geminiChunk, controller) (lines 202-286)
transform(st, chunk) ==
    IF Len(chunk.candidates) > 0
    THEN LET after == CandidateLoop(st, chunk, 0)
         IN IF chunk.usageMetadata.present /\ after.finalUsageData.present
            THEN [after EXCEPT !.finalUsageData =
                                  transformGeminiUsageToOpenAI(chunk.usageMetadata)]
            ELSE after
    ELSE IF chunk.promptFeedback # "none"
    THEN LET finishReason == IF chunk.promptFeedback = "block"
                             THEN "content_filter" ELSE "error"
         IN [isFirst |-> [st.isFirst EXCEPT ![0] = PromptHandled],
             finalUsageData |-> st.finalUsageData,
             acc |-> [st.acc EXCEPT ![0] = finishReason],
             out |-> enqueue(st.out,
                        ChunkFrame(<<Choice(0, EmptyDelta, finishReason)>>, NullUsage))]
    ELSE st

\* the frames flush puts after the synthetic chunks (line 328), and nothing
FlushTailNone == <<>>

FlushTail == <<DoneFrame>>

\* the synthetic chunks of flush, over Object.keys(isFirst) in index order
RECURSIVE FlushChoices(_, _)
FlushChoices(st, i) ==
    IF i >= MaxCandidates THEN <<>>
    ELSE (IF st.isFirst[i] = Some(TRUE) /\ Truthy(st.acc[i])
          THEN <<ChunkFrame(<<Choice(i, RoleOnlyDelta, st.acc[i])>>,
                            IF include_usage /\ st.finalUsageData.present
                            THEN st.finalUsageData ELSE NullUsage)>>
          ELSE <<>>)
            \o FlushChoices(st, i + 1)

\* flush(controller) (lines 288-329), and the same with [DONE] enqueued first
flushDoneFirst(st) == FlushTail \o FlushChoices(st, 0)

flush(st) ==
    (IF include_usage /\ st.finalUsageData.present
     THEN <<ChunkFrame(<<>>, st.finalUsageData)>>
     ELSE <<>>)
       \o FlushChoices(st, 0) \o FlushTail

StreamState == [isFirst |-> tr.isFirst, finalUsageData |-> tr.finalUsageData,
                acc |-> tr.acc, out |-> out]

(***************************************************************************)
(* The pipes (part_001 lines 112-114, 159-185).  The source stream has the *)
(* default queue of one chunk and the TransformStream's writable side can  *)
(* hold one more: pull asks the iterator for the next chunk whenever the   *)
(* source queue is empty, so the iterator runs at most MaxAhead chunks     *)
(* ahead of transform.  The readable side of a TransformStream has a       *)
(* high-water mark of 0: transform is called once every frame enqueued     *)
(* before has been read.                                                   *)
(***************************************************************************)
MaxAhead == 2

\* chunks the iterator has yielded and transform has not been given
Ahead == Len(fed) - pipe.xf

\* pull has called iterator.next() and awaits its answer (lines 162-164)
NextOutstanding ==
    /\ phase \in {"open", "native"}
    /\ iter = "open"
    /\ Ahead < MaxAhead

\* the handler has returned the response whose body the stream is (a stream
\* taken alone has its reader from the start)
Returned == mode = "none" \/ pc = "done"

\* pull, lines 164-169: the iterator yields a chunk, which is enqueued on the
\* source stream
PullChunk ==
    /\ NextOutstanding
    /\ Len(fed) < MaxChunks
    /\ \E chunk \in Chunks : fed' = Append(fed, chunk)
    /\ UNCHANGED <<kvVars, reqVars, rotVars, finVars, callVars, opVars, pureVars, connVars>>
    /\ UNCHANGED <<tr, out, pipe, phase, iter>>

\* the pipe hands the next chunk to transform (lines 202-286), once the
\* frames enqueued before have been read
TransformChunk ==
    /\ phase = "open"
    /\ Ahead > 0
    /\ pipe.read = Len(out)
    /\ LET st == transform(StreamState, fed[pipe.xf + 1])
       IN /\ tr' = [isFirst |-> st.isFirst, finalUsageData |-> st.finalUsageData,
                    acc |-> st.acc]
          /\ out' = st.out
    /\ pipe' = [pipe EXCEPT !.xf = @ + 1]
    /\ UNCHANGED <<kvVars, reqVars, rotVars, finVars, callVars, opVars, pureVars, connVars>>
    /\ UNCHANGED <<fed, phase, iter>>

\* the client reads the next frame of the response body
ClientRead ==
    /\ phase \in {"open", "native", "closed", "errored"}
    /\ Returned
    /\ pipe.read < Len(out)
    /\ pipe' = [pipe EXCEPT !.read = @ + 1]
    /\ UNCHANGED <<kvVars, reqVars, rotVars, finVars, callVars, opVars, pureVars, connVars>>
    /\ UNCHANGED <<tr, fed, out, phase, iter>>

\* pull, lines 165-166: the iterator is done; controller.close() closes the
\* source stream, whose queue is empty
PullDone ==
    /\ NextOutstanding
    /\ iter' = "done"
    /\ UNCHANGED <<kvVars, reqVars, rotVars, finVars, callVars, opVars, pureVars, connVars>>
    /\ UNCHANGED <<tr, fed, out, pipe, phase>>

\* the source being closed and the chunks read from it transformed, the pipe
\* closes the TransformStream: flush runs (lines 288-329) and the frames it
\* enqueues are the last
PipeClose ==
    /\ phase = "open"
    /\ iter = "done"
    /\ Ahead = 0
    /\ out' = out \o flush(StreamState)
    /\ phase' = "closed"
    /\ UNCHANGED <<kvVars, reqVars, rotVars, finVars, callVars, opVars, pureVars, connVars>>
    /\ UNCHANGED <<tr, fed, pipe, iter>>

\* lines 170-173: the frames an errored pipe adds (none: the transformer's
\* flush is not called)
ErrorTail(st) == <<>>

\* pull, lines 170-173: iterator.next() throws; controller.error(err) errors
\* the source stream; nothing more is asked of the iterator
PullThrow ==
    /\ NextOutstanding
    /\ iter' = "threw"
    /\ UNCHANGED <<kvVars, reqVars, rotVars, finVars, callVars, opVars, pureVars, connVars>>
    /\ UNCHANGED <<tr, fed, out, pipe, phase>>

\* the frames a client that has read n of them still gets when the stream
\* errors: the one already handed to the TextEncoderStream, if any; and the
\* same with the queued frames kept
DeliveredAll(frames, n) == frames

Delivered(frames, n) == SubSeq(frames, 1, Min(n + 1, Len(frames)))

\* the source being errored and the chunk read from it before transformed,
\* the pipe aborts the TransformStream: flush does not run, the frames still
\* queued on its readable side are discarded and the response body errors
PipeAbort ==
    /\ phase \in {"open", "native"}
    /\ iter = "threw"
    /\ Ahead = 0
    /\ phase' = "errored"
    /\ out' = Delivered(out, pipe.read) \o ErrorTail(StreamState)
    /\ UNCHANGED <<kvVars, reqVars, rotVars, finVars, callVars, opVars, pureVars, connVars>>
    /\ UNCHANGED <<tr, fed, pipe, iter>>

\* whether the iterator has a return method: the SDK's async generator does
HasReturn == TRUE

\* lines 175-183: the client cancels the response body, the frames it has
\* not read are discarded, and the cancellation reaches the source stream;
\* cancel(reason) runs, and calls iterator.return() when it is a function,
\* unless the source stream is closed or errored already
Cancel ==
    /\ \/ phase \in {"open", "native"}
       \/ phase = "closed" /\ pipe.read < Len(out)
    /\ Returned
    /\ phase' = "cancelled"
    /\ out' = SubSeq(out, 1, pipe.read)
    /\ iter' = IF iter = "open" /\ HasReturn THEN "returned" ELSE iter
    /\ UNCHANGED <<kvVars, reqVars, rotVars, finVars, callVars, opVars, pureVars, connVars>>
    /\ UNCHANGED <<tr, fed, pipe>>

InitStream ==
    /\ StoreIdle
    /\ ReqIdle
    /\ FinishIdle
    /\ FnIdle
    /\ tr = NewTransformer
    /\ fed = <<>>
    /\ out = <<>>
    /\ pipe = NoPipe
    /\ phase = "open"
    /\ iter = "open"

NextStream ==
    \/ PullChunk
    \/ TransformChunk
    \/ ClientRead
    \/ PullDone
    \/ PipeClose
    \/ PullThrow
    \/ PipeAbort
    \/ Cancel

SpecStream == InitStream /\ [][NextStream]_vars

\* the frames of out that are a prelude for choice index i
IsPrelude(f, i) ==
    /\ f.kind = "chunk"
    /\ Len(f.choices) = 1
    /\ f.choices[1].index = i
    /\ f.choices[1].delta = RoleOnlyDelta
    /\ f.choices[1].finish_reason = NoKey
Preludes(i) == {k \in 1..Len(out) : IsPrelude(out[k], i)}
DonePositions == {k \in 1..Len(out) : out[k].kind = "done"}

\* C7 (Stream-prelude-once): whatever chunks are fed and however the stream
\* ends, at most one chunk with delta exactly {role:"assistant"} and
\* finish_reason null is emitted per choice index.
StreamPreludeOnce ==
    \A i \in ChoiceIndexes : Cardinality(Preludes(i)) <= 1

\* three chunks with content for choice 0 were fed and flushed: one prelude
StreamPreludeOnceWitness ==
    /\ phase = "closed"
    /\ Len(fed) = 3
    /\ \A k \in 1..3 : /\ Len(fed[k].candidates) > 0
                       /\ TextContent(fed[k].candidates[1].parts) # ""
    /\ Cardinality(Preludes(0)) = 1

\* C8 as stated (Stream-terminator): however the upstream iterator ends,
\* normally or by a thrown error, the response ends with exactly one [DONE]
\* event and nothing follows it.
StreamTerminatorAlways ==
    phase \in {"closed", "errored"} => DonePositions = {Len(out)} /\ Len(out) > 0

\* C8 as the code has it: a stream whose iterator completes ends with exactly
\* one [DONE] event, the last one; a stream whose iterator throws (or that the
\* client cancels) is cut short and carries no [DONE] event at all.
StreamTerminator ==
    /\ phase = "closed" => (DonePositions = {Len(out)} /\ Len(out) > 0)
    /\ phase # "closed" => DonePositions = {}

\* a stream of two chunks completed normally and ended with [DONE]
StreamTerminatorWitness ==
    /\ phase = "closed"
    /\ Len(fed) = 2
    /\ Len(out) >= 3
    /\ out[Len(out)] = DoneFrame

\* scenario S3: every chunk has one candidate of text Parts only, no chunk
\* but the last has a finish reason, the last has STOP and usageMetadata
ScenarioS3 ==
    /\ phase = "closed"
    /\ Len(fed) >= 1
    /\ \A k \in 1..Len(fed) :
          /\ Len(fed[k].candidates) = 1
          /\ TextContent(fed[k].candidates[1].parts) # ""
          /\ ~SomeFunctionCall(fed[k].candidates[1].parts)
          /\ k < Len(fed) => fed[k].candidates[1].finishReason = NoKey
    /\ fed[Len(fed)].candidates[1].finishReason = "STOP"
    /\ fed[Len(fed)].usageMetadata.present

\* C9 (Streaming with usage, S3): the frames are exactly one prelude, then one
\* content delta per native chunk in order, finish_reason null on all but the
\* last, which has finish_reason "stop" and the usage object, then [DONE].
StreamingWithUsage ==
    ScenarioS3 =>
        LET n == Len(fed)
            u == fed[n].usageMetadata
        IN /\ Len(out) = n + 2
           /\ IsPrelude(out[1], 0)
           /\ out[1].usage = NullUsage
           /\ \A k \in 1..n :
                 LET f == out[k + 1]
                 IN /\ f.kind = "chunk"
                    /\ Len(f.choices) = 1
                    /\ f.choices[1].index = 0
                    /\ f.choices[1].delta.content = TextContent(fed[k].candidates[1].parts)
                    /\ f.choices[1].delta.tool_calls = <<>>
                    /\ f.choices[1].finish_reason = (IF k = n THEN "stop" ELSE NoKey)
                    /\ f.usage = (IF k = n
                                  THEN [present |-> TRUE,
                                        prompt_tokens |-> u.prompt,
                                        completion_tokens |-> u.response - u.thoughts,
                                        total_tokens |-> u.total,
                                        reasoning_tokens |-> u.thoughts]
                                  ELSE NullUsage)
           /\ out[n + 2] = DoneFrame

\* "he", then "llo" with STOP and usage {3, 2, 5}: four frames, usage on the third
StreamingWithUsageWitness ==
    /\ ScenarioS3
    /\ Len(fed) = 2
    /\ TextContent(fed[1].candidates[1].parts) = "he"
    /\ TextContent(fed[2].candidates[1].parts) = "llo"
    /\ fed[2].usageMetadata = UsageS3
    /\ out[3].usage = [present |-> TRUE, prompt_tokens |-> 3, completion_tokens |-> 2,
                       total_tokens |-> 5, reasoning_tokens |-> 0]
    /\ out[3].choices[1].finish_reason = "stop"

(***************************************************************************)
(* Native routing: classifyRequestPath (forwarder/utils.ts lines 23-46),   *)
(* the route table (native_gemini/routes.ts) and handleNativeGeminiRequest *)
(* (native_gemini/handler.ts lines 5-44)                                   *)
(***************************************************************************)
\* a target path (the pathname with the prefix /api stripped):
\* "/" seg1 "/" ... "/" segN [":" action] ["/"]
Path(segs, action, slash) == [segs |-> segs, action |-> action, slash |-> slash]

NativeActions ==
    {"generateContent", "streamGenerateContent", "embedContent", "batchEmbedContents",
     "countTokens", "generateImageWithGemini", "generateImageWithImagen"}

PathSegs ==
    { <<"models">>, <<"models", "m1">>,
      <<"v1beta", "models">>, <<"v1beta", "models", "m1">>,
      <<"v1beta", "tunedModels", "m1">>,
      <<"v1", "models">>, <<"v1", "chat", "completions">>, <<"v1", "embeddings">>,
      <<"v1", "images", "generations">>, <<"v1beta", "files">> }

Paths == { Path(sg, a, sl) : sg \in PathSegs,
                             a \in NativeActions \cup {NoKey, "predict"},
                             sl \in BOOLEAN }
Methods == {"GET", "POST"}

\* pathname.endsWith("/" a) and pathname.endsWith("/" a "/" b)
EndsWith1(path, a) ==
    /\ ~path.slash /\ path.action = NoKey
    /\ path.segs[Len(path.segs)] = a
EndsWith2(path, a, b) ==
    /\ ~path.slash /\ path.action = NoKey
    /\ Len(path.segs) >= 2
    /\ path.segs[Len(path.segs) - 1] = a
    /\ path.segs[Len(path.segs)] = b

\* pathname.startsWith('/v1beta/models')
StartsWithV1betaModels(path) ==
    Len(path.segs) >= 2 /\ path.segs[1] = "v1beta" /\ path.segs[2] = "models"

classifyRequestPath(path) ==
    IF path.action \in NativeActions \/ StartsWithV1betaModels(path) THEN "native"
    ELSE IF EndsWith2(path, "images", "generations") THEN "openai_image"
    ELSE IF \/ EndsWith2(path, "chat", "completions")
            \/ EndsWith1(path, "embeddings")
            \/ EndsWith1(path, "models") THEN "openai"
    ELSE "unknown"

\* the route table, in its order
Route(name, kind, method, requiresBody) ==
    [name |-> name, kind |-> kind, method |-> method, requiresBody |-> requiresBody]
nativeRoutes ==
    << Route("listModels", "list", "GET", FALSE),
       Route("getModel", "get", "GET", FALSE),
       Route("generateContent", "action", "POST", TRUE),
       Route("streamGenerateContent", "action", "POST", TRUE),
       Route("embedContent", "action", "POST", TRUE),
       Route("countTokens", "action", "POST", TRUE),
       Route("batchEmbedContents", "action", "POST", TRUE),
       Route("generateImageWithGemini", "action", "POST", TRUE),
       Route("generateImageWithImagen", "action", "POST", TRUE) >>

\* targetPath.match(route.pathPattern):
\*   list    /^\/?models\/?$/i
\*   get     /^\/?models\/([^/:]+)$/i
\*   action  /\/(?:models|tunedModels)\/([^/:]+):<action>$/i
PathMatches(route, path) ==
    LET n == Len(path.segs)
    IN CASE route.kind = "list" ->
               path.segs = <<"models">> /\ path.action = NoKey
         [] route.kind = "get" ->
               n = 2 /\ path.segs[1] = "models" /\ path.action = NoKey /\ ~path.slash
         [] OTHER ->
               /\ n >= 2
               /\ path.segs[n - 1] \in {"models", "tunedModels"}
               /\ path.action = route.name
               /\ ~path.slash

\* handleNativeGeminiRequest(apiKey, method, targetPath, requestBody): the
\* handler of the first route that matches, or the status of the rejection
handleNativeGeminiRequest(method, path, requestBody) ==
    LET hits == {k \in 1..Len(nativeRoutes) :
                    PathMatches(nativeRoutes[k], path) /\ method = nativeRoutes[k].method}
    IN IF hits = {} THEN [status |-> 404, handler |-> NoKey]
       ELSE LET route == nativeRoutes[CHOOSE k \in hits : \A j \in hits : k <= j]
            IN IF route.requiresBody /\ requestBody = NoKey
               THEN [status |-> 400, handler |-> NoKey]
               ELSE [status |-> 0, handler |-> route.name]

\* handler.ts lines 28-32 and 63-64: the path is classified; an unknown path
\* is answered 404, a native one goes to handleNativeGeminiRequest
DispatchPath ==
    /\ fnIn.fn = "route"
    /\ fnOut = Absent
    /\ LET pathType == classifyRequestPath(fnIn.path)
       IN fnOut' = Some([pathType |-> pathType,
                         native |-> IF pathType = "native"
                                    THEN handleNativeGeminiRequest(fnIn.method, fnIn.path,
                                                                   fnIn.body)
                                    ELSE IF pathType = "unknown"
                                    THEN [status |-> 404, handler |-> NoKey]
                                    ELSE [status |-> 0, handler |-> NoKey]])
    /\ UNCHANGED <<kvVars, reqVars, rotVars, streamVars, finVars, callVars, opVars, connVars, fnIn>>

InitRoute ==
    /\ StoreIdle
    /\ ReqIdle
    /\ StreamIdle
    /\ FinishIdle
    /\ fnIn \in [fn : {"route"}, method : Methods, path : Paths, body : {NoKey, "json"}]
    /\ fnOut = Absent
    /\ dc = Connected
    /\ cl = [c \in Callers |-> NoCall]
    /\ ops = NoOps

NextRoute == DispatchPath

SpecRoute == InitRoute /\ [][NextRoute]_vars

\* C13 (Native model routes are served), as claimed: GET /v1beta/models goes
\* to the listModels handler, GET /v1beta/models/{id} to the getModel handler,
\* and POST /v1beta/models/{id}:<action> with a body to the handler of that
\* action; none is answered 404.
NativeRoutesServed ==
    fnOut # Absent =>
        LET r == fnOut[1]
            p == fnIn.path
        IN /\ (fnIn.method = "GET" /\ p = Path(<<"v1beta", "models">>, NoKey, FALSE))
                 => (r.pathType = "native" /\ r.native.handler = "listModels")
           /\ (fnIn.method = "GET" /\ p = Path(<<"v1beta", "models", "m1">>, NoKey, FALSE))
                 => (r.pathType = "native" /\ r.native.handler = "getModel")
           /\ (/\ fnIn.method = "POST" /\ fnIn.body # NoKey
               /\ p.segs = <<"v1beta", "models", "m1">> /\ ~p.slash
               /\ p.action \in NativeActions)
                 => (r.pathType = "native" /\ r.native.handler = p.action)

(***************************************************************************)
(* Generation-config translators: transformOpenAIConfigToSdkConfigOptions  *)
(* (openai utils, part_002 lines 17-68) and buildSdkConfigOptions          *)
(* (native_gemini/utils.ts lines 5-33)                                     *)
(***************************************************************************)
\* JSON values: null, a number, a string, an array of values
Js(t, n, str, a) == [t |-> t, n |-> n, s |-> str, a |-> a]
JsNull == Js("null", 0, "", <<>>)
JsNum(n) == Js("number", n, "", <<>>)
JsStr(str) == Js("string", 0, str, <<>>)
JsArr(a) == Js("array", 0, "", a)

\* a field of an object is Absent (undefined) or Some(value)
\* JavaScript truthiness of a field
JsTruthy(f) ==
    /\ f # Absent
    /\ f[1].t # "null"
    /\ f[1].t = "number" => f[1].n # 0
    /\ f[1].t = "string" => f[1].s # ""

\* `x !== undefined`, and the same test written as a truthiness test
IsDefinedTruthy(f) == JsTruthy(f)

IsDefined(f) == f # Absent

\* a ?? b
Nullish(a, b) == IF a = Absent \/ a = Some(JsNull) THEN b ELSE a

\* types.ts defaultSafetySettings, and settings a caller may send
SafetySetting(category, threshold) == [category |-> category, threshold |-> threshold]
defaultSafetySettings ==
    << SafetySetting("HARM_CATEGORY_HATE_SPEECH", "OFF"),
       SafetySetting("HARM_CATEGORY_SEXUALLY_EXPLICIT", "OFF"),
       SafetySetting("HARM_CATEGORY_DANGEROUS_CONTENT", "OFF"),
       SafetySetting("HARM_CATEGORY_HARASSMENT", "OFF"),
       SafetySetting("HARM_CATEGORY_CIVIC_INTEGRITY", "OFF") >>
CallerSafetySettings ==
    << SafetySetting("HARM_CATEGORY_HATE_SPEECH", "BLOCK_LOW_AND_ABOVE") >>

\* the safetySettings written into the config, whatever the caller sent
\* (part_002 line 66, utils.ts line 10); and the caller's kept when sent
EnforcedSafetyUnlessSent(sent) ==
    IF sent # Absent THEN sent ELSE Some(defaultSafetySettings)

EnforcedSafety(sent) == Some(defaultSafetySettings)

\* reasoning.effort.toLowerCase() on the efforts of the model
EffortLower(effort) ==
    CASE effort \in {"low", "LOW"} -> "low"
      [] effort \in {"high", "High"} -> "high"
      [] effort = "medium" -> "medium"
      [] OTHER -> effort

\* an SdkConfigOptions object with no key set
EmptySdkConfig ==
    [temperature |-> Absent, topP |-> Absent, topK |-> Absent,
     candidateCount |-> Absent, maxOutputTokens |-> Absent,
     stopSequences |-> Absent, responseMimeType |-> Absent,
     thinkingConfig |-> Absent, safetySettings |-> Absent]

\* lines 27-33: the stop field
StopSequences(stop) ==
    IF ~JsTruthy(stop) THEN Absent
    ELSE IF stop[1].t = "string" THEN Some(<<stop[1]>>)
    ELSE IF stop[1].t = "array"
            /\ \A k \in 1..Len(stop[1].a) : stop[1].a[k].t = "string"
    THEN Some(stop[1].a)
    ELSE Absent

transformOpenAIConfigToSdkConfigOptions(req) ==
    [temperature |-> IF IsDefined(req.temperature) THEN req.temperature ELSE Absent,
     topP |-> IF IsDefined(req.top_p) THEN req.top_p ELSE Absent,
     topK |-> IF IsDefined(req.top_k) THEN req.top_k ELSE Absent,
     candidateCount |-> IF IsDefined(req.n) THEN req.n ELSE Absent,
     maxOutputTokens |-> IF IsDefined(req.max_tokens) THEN req.max_tokens ELSE Absent,
     stopSequences |-> StopSequences(req.stop),
     responseMimeType |-> IF req.response_format = Some("json_object")
                          THEN Some("application/json") ELSE Absent,
     thinkingConfig |->
         IF req.effort = Absent \/ req.effort = Some("") THEN Absent
         ELSE LET effort == EffortLower(req.effort[1])
              IN IF effort = "low" THEN Some(1024)
                 ELSE IF effort = "medium" THEN Some(4096)
                 ELSE IF effort = "high" THEN Some(16384)
                 ELSE Absent,
     safetySettings |-> EnforcedSafety(req.safetySettings)]

\* { ...a, ...b } on the keys of the model: b's keys win
Spread(a, b) ==
    [k \in DOMAIN a |-> IF b[k] # Absent THEN b[k] ELSE a[k]]

\* nativeBody.config or nativeBody.generationConfig, or {} when not sent
SubConfig(sub) == IF sub = Absent THEN EmptySdkConfig ELSE sub[1]

\* a thinkingConfig object: its thinkingBudget field, Absent or Some(value),
\* is kept in a; the budget of a thinkingConfig value (tc.thinkingBudget)
ThinkingConfigObj(budget) == Js("object", 0, "", budget)
ThinkingBudget(tc) ==
    IF tc = Absent \/ tc[1].t # "object" THEN Absent ELSE tc[1].a

buildSdkConfigOptions(nativeBody) ==
    LET config == SubConfig(nativeBody.config)
        generationConfig == SubConfig(nativeBody.generationConfig)
        spread == Spread(config, generationConfig)
        tc == Nullish(nativeBody.thinkingConfig,
                      Nullish(config.thinkingConfig, generationConfig.thinkingConfig))
        budget == ThinkingBudget(tc)
    IN [spread EXCEPT
          !.safetySettings = EnforcedSafety(nativeBody.safetySettings),
          !.temperature = Nullish(nativeBody.temperature,
                                  Nullish(generationConfig.temperature, config.temperature)),
          !.responseMimeType =
              Nullish(nativeBody.responseMimeType,
                      Nullish(config.responseMimeType, generationConfig.responseMimeType)),
          !.thinkingConfig = IF budget # Absent /\ budget # Some(JsNull)
                             THEN Some(ThinkingConfigObj(budget))
                             ELSE spread.thinkingConfig]

\* the alt-chat requests and native bodies of the model
OptNumbers(S) == {Absent} \cup {Some(JsNum(n)) : n \in S}
StopValues ==
    { Absent, Some(JsNull), Some(JsStr("")), Some(JsStr("END")),
      Some(JsArr(<<>>)), Some(JsArr(<<JsStr("a"), JsStr("b")>>)),
      Some(JsArr(<<JsStr("b"), JsStr("a")>>)), Some(JsArr(<<JsStr("a"), JsNum(1)>>)) }
AltRequests ==
    [fn : {"alt"},
     temperature : OptNumbers({0, 1}) \cup {Some(JsNull)},
     top_p : OptNumbers({1}),
     top_k : OptNumbers({0}),
     n : OptNumbers({2}),
     max_tokens : OptNumbers({64}),
     stop : StopValues,
     response_format : {Absent, Some("json_object")},
     effort : {Absent, Some("LOW"), Some("max")},
     safetySettings : {Absent, Some(CallerSafetySettings)}]
MimeTypes == {Absent, Some(JsStr("application/json")), Some(JsStr("text/plain"))}
ThinkingConfigs ==
    {Absent, Some(ThinkingConfigObj(Absent)), Some(ThinkingConfigObj(Some(JsNum(0))))}
SubConfigs ==
    {Absent} \cup
    { Some([EmptySdkConfig EXCEPT !.safetySettings = ss, !.temperature = t,
                                  !.responseMimeType = mt,
                                  !.thinkingConfig = tk]) :
         ss \in {Absent, Some(CallerSafetySettings)},
         t \in OptNumbers({1, 2}),
         mt \in MimeTypes,
         tk \in ThinkingConfigs }
NativeBodies ==
    [fn : {"native"},
     config : SubConfigs,
     generationConfig : SubConfigs,
     safetySettings : {Absent, Some(CallerSafetySettings)},
     temperature : OptNumbers({0}) \cup {Some(JsNull)},
     responseMimeType : {Absent, Some(JsStr("text/x.enum"))},
     thinkingConfig : {Absent, Some(ThinkingConfigObj(Absent))}]

\* the alt-chat translator applied to the request drawn by InitTranslate
ApplyAltConfig ==
    /\ fnIn.fn = "alt"
    /\ fnOut = Absent
    /\ fnOut' = Some(transformOpenAIConfigToSdkConfigOptions(fnIn))
    /\ UNCHANGED <<kvVars, reqVars, rotVars, streamVars, finVars, callVars, opVars, connVars, fnIn>>

\* the native builder applied to the body drawn by InitTranslate
ApplyNativeConfig ==
    /\ fnIn.fn = "native"
    /\ fnOut = Absent
    /\ fnOut' = Some(buildSdkConfigOptions(fnIn))
    /\ UNCHANGED <<kvVars, reqVars, rotVars, streamVars, finVars, callVars, opVars, connVars, fnIn>>

InitTranslate ==
    /\ StoreIdle
    /\ ReqIdle
    /\ StreamIdle
    /\ FinishIdle
    /\ fnIn \in AltRequests \cup NativeBodies
    /\ fnOut = Absent
    /\ dc = Connected
    /\ cl = [c \in Callers |-> NoCall]
    /\ ops = NoOps

NextTranslate == ApplyAltConfig \/ ApplyNativeConfig

SpecTranslate == InitTranslate /\ [][NextTranslate]_vars

\* the five categories, all OFF
AllOff ==
    << [category |-> "HARM_CATEGORY_HATE_SPEECH", threshold |-> "OFF"],
       [category |-> "HARM_CATEGORY_SEXUALLY_EXPLICIT", threshold |-> "OFF"],
       [category |-> "HARM_CATEGORY_DANGEROUS_CONTENT", threshold |-> "OFF"],
       [category |-> "HARM_CATEGORY_HARASSMENT", threshold |-> "OFF"],
       [category |-> "HARM_CATEGORY_CIVIC_INTEGRITY", threshold |-> "OFF"] >>

\* C17 (Safety-override): the config produced from any alt-chat request and
\* from any native body has safetySettings equal to the fixed list of five
\* categories all OFF, whatever safety settings the input carries.
SafetyOverride ==
    fnOut # Absent => fnOut[1].safetySettings = <<AllOff>>

\* a native body carrying its own safety settings at the top level and in
\* generationConfig has been translated, and the settings are all OFF
SafetyOverrideWitness ==
    /\ fnIn.fn = "native"
    /\ fnIn.safetySettings # Absent
    /\ fnIn.generationConfig # Absent
    /\ fnIn.generationConfig[1].safetySettings # Absent
    /\ fnOut # Absent
    /\ fnOut[1].safetySettings = <<AllOff>>

\* the alt-chat request carries a stop that is a string
StopIsString == fnIn.stop # Absent /\ fnIn.stop[1].t = "string"
\* the alt-chat request carries a stop that is an array of strings
StopIsStringArray ==
    /\ fnIn.stop # Absent
    /\ fnIn.stop[1].t = "array"
    /\ \A k \in 1..Len(fnIn.stop[1].a) : fnIn.stop[1].a[k].t = "string"
\* the five scalar fields appear under their native names, present or absent
ScalarsMapped ==
    /\ fnOut[1].temperature = fnIn.temperature
    /\ fnOut[1].topP = fnIn.top_p
    /\ fnOut[1].topK = fnIn.top_k
    /\ fnOut[1].candidateCount = fnIn.n
    /\ fnOut[1].maxOutputTokens = fnIn.max_tokens

\* C18 as stated (Config mapping): each of temperature, top_p, top_k, n,
\* max_tokens that is present appears unchanged under its native name, a
\* present stop (a string or an array of strings) appears as stopSequences,
\* an array of the same strings in the same order, and absent fields are
\* absent in the native config.
ConfigMapping ==
    (fnIn.fn = "alt" /\ fnOut # Absent) =>
        /\ ScalarsMapped
        /\ StopIsString => fnOut[1].stopSequences = << <<fnIn.stop[1]>> >>
        /\ StopIsStringArray => fnOut[1].stopSequences = <<fnIn.stop[1].a>>
        /\ fnIn.stop = Absent => fnOut[1].stopSequences = Absent

\* C18 as the code has it: the five scalar fields as stated; a stop that is a
\* non-empty string appears as the one-element array holding it and a stop
\* that is an array of strings as that array; a stop that is absent, null or
\* the empty string leaves stopSequences absent.
ConfigMappingNonEmptyStop ==
    (fnIn.fn = "alt" /\ fnOut # Absent) =>
        /\ ScalarsMapped
        /\ (StopIsString /\ fnIn.stop[1].s # "")
              => fnOut[1].stopSequences = << <<fnIn.stop[1]>> >>
        /\ StopIsStringArray => fnOut[1].stopSequences = <<fnIn.stop[1].a>>
        /\ (fnIn.stop = Absent \/ fnIn.stop[1].t = "null"
               \/ (StopIsString /\ fnIn.stop[1].s = ""))
              => fnOut[1].stopSequences = Absent

\* a request with temperature 0, top_k 0 and the stop "END" has been
\* translated: both zeros are kept and stopSequences is ["END"]
ConfigMappingWitness ==
    /\ fnIn.fn = "alt"
    /\ fnIn.temperature = <<JsNum(0)>>
    /\ fnIn.top_k = <<JsNum(0)>>
    /\ fnIn.n = Absent
    /\ fnIn.stop = <<JsStr("END")>>
    /\ fnOut # Absent
    /\ fnOut[1].temperature = <<JsNum(0)>>
    /\ fnOut[1].candidateCount = Absent
    /\ fnOut[1].stopSequences = << <<JsStr("END")>> >>

\* a field that is present: neither left out nor null
Present(f) == f # Absent /\ f # Some(JsNull)
\* the first present of the top-level field, generationConfig's and config's
FirstPresent(top, gen, cfg) ==
    IF Present(top) THEN top ELSE IF Present(gen) THEN gen ELSE cfg

\* C31 (Native config merge precedence), as claimed: for a native body, the
\* effective value of an alias field (temperature and responseMimeType in the
\* model) is the top-level field if present, else generationConfig's, else
\* config's; and the built config has a thinkingConfig only when one of the
\* body's thinkingConfig objects carries a thinkingBudget.
ConfigMergePrecedence ==
    (fnIn.fn = "native" /\ fnOut # Absent) =>
        LET cfg == IF fnIn.config = Absent THEN EmptySdkConfig ELSE fnIn.config[1]
            gen == IF fnIn.generationConfig = Absent THEN EmptySdkConfig
                   ELSE fnIn.generationConfig[1]
            HasBudget(v) == v # Absent /\ v[1].t = "object" /\ Present(v[1].a)
        IN /\ fnOut[1].temperature =
                 FirstPresent(fnIn.temperature, gen.temperature, cfg.temperature)
           /\ fnOut[1].responseMimeType =
                 FirstPresent(fnIn.responseMimeType, gen.responseMimeType,
                              cfg.responseMimeType)
           /\ fnOut[1].thinkingConfig # Absent =>
                 \/ HasBudget(fnIn.thinkingConfig)
                 \/ HasBudget(gen.thinkingConfig)
                 \/ HasBudget(cfg.thinkingConfig)

(***************************************************************************)
(* Message translator: transformOpenAIMessagesToGeminiContents             *)
(* (part_002 lines 95-163).  A message has a role, a content (left out,    *)
(* null, a string or an array of text items), tool_calls (left out or an   *)
(* array of calls whose arguments parse or not), a tool_call_id and a name.*)
(***************************************************************************)
MaxMessages == 2

GeminiTextPart(text) == [kind |-> "text", v |-> text]
FunctionResponsePart(name, content) ==
    [kind |-> "functionResponse", v |-> name, content |-> content]
FunctionCallPart(name) == [kind |-> "functionCall", v |-> name]

\* lines 103-127: the parts made from the content of one message
ContentParts(msg) ==
    IF msg.role = "tool"
    THEN IF JsTruthy(msg.tool_call_id) /\ JsTruthy(msg.content)
         THEN << FunctionResponsePart(
                    IF JsTruthy(msg.name) THEN msg.name[1].s ELSE msg.tool_call_id[1].s,
                    msg.content[1]) >>
         ELSE <<>>
    ELSE IF msg.content # Absent /\ msg.content[1].t = "string"
    THEN << GeminiTextPart(msg.content[1].s) >>
    ELSE IF msg.content # Absent /\ msg.content[1].t = "array"
    THEN [k \in 1..Len(msg.content[1].a) |-> GeminiTextPart(msg.content[1].a[k].s)]
    ELSE <<>>

\* lines 130-146: the parts made from the tool_calls of an assistant message;
\* a call whose arguments do not parse is left out
RECURSIVE ToolCallParts(_)
ToolCallParts(toolCalls) ==
    IF toolCalls = <<>> THEN <<>>
    ELSE LET toolCall == Head(toolCalls)
         IN (IF toolCall.type = "function" /\ toolCall.argsParse
             THEN << FunctionCallPart(toolCall.name) >> ELSE <<>>)
            \o ToolCallParts(Tail(toolCalls))

MessageParts(msg) ==
    ContentParts(msg)
       \o (IF msg.role = "assistant" /\ msg.tool_calls # Absent
           THEN ToolCallParts(msg.tool_calls[1]) ELSE <<>>)

\* line 153: the role of the Content made from a message
ContentRole(role) ==
    IF role = "assistant" THEN "model" ELSE IF role = "tool" THEN "function" ELSE "user"

\* line 150: the system instruction after a system message with parts
SystemInstruction(prev, parts) == Some([role |-> "system", parts |-> parts])

RECURSIVE transformOpenAIMessagesToGeminiContents(_)
transformOpenAIMessagesToGeminiContents(messages) ==
    IF messages = <<>> THEN [contents |-> <<>>, systemInstruction |-> Absent]
    ELSE LET done == transformOpenAIMessagesToGeminiContents(
                         SubSeq(messages, 1, Len(messages) - 1))
             msg == messages[Len(messages)]
             parts == MessageParts(msg)
         IN IF Len(parts) > 0
            THEN IF msg.role = "system"
                 THEN [done EXCEPT !.systemInstruction =
                                       SystemInstruction(done.systemInstruction, parts)]
                 ELSE [done EXCEPT !.contents =
                          Append(@, [role |-> ContentRole(msg.role), parts |-> parts])]
            ELSE IF msg.role = "assistant" /\ ~JsTruthy(msg.content)
                      /\ msg.tool_calls = Absent
            THEN [done EXCEPT !.contents =
                     Append(@, [role |-> "model", parts |-> << GeminiTextPart("") >>])]
            ELSE done

\* the messages of the model
Message(role, content, tool_calls, tool_call_id, name) ==
    [role |-> role, content |-> content, tool_calls |-> tool_calls,
     tool_call_id |-> tool_call_id, name |-> name]
ToolCall(name, argsParse) == [type |-> "function", name |-> name, argsParse |-> argsParse]
AltMessages ==
    { Message("system", Some(JsStr(t)), Absent, Absent, Absent) : t \in {"be brief", "be kind"} }
    \cup { Message("user", c, Absent, Absent, Absent) :
              c \in {Some(JsStr("hi")), Some(JsArr(<<JsStr("a"), JsStr("b")>>)),
                     Some(JsArr(<<>>))} }
    \cup { Message("assistant", c, tc, Absent, Absent) :
              c \in {Absent, Some(JsNull), Some(JsStr("")), Some(JsStr("ok"))},
              tc \in {Absent, Some(<<>>), Some(<<ToolCall("lookup", TRUE)>>),
                      Some(<<ToolCall("lookup", FALSE)>>)} }
    \cup { Message("tool", c, Absent, id, n) :
              c \in {Some(JsStr("")), Some(JsStr("42"))},
              id \in {Absent, Some(JsStr("call_1"))},
              n \in {Absent, Some(JsStr("lookup"))} }
MessageLists ==
    UNION { [1..n -> AltMessages] : n \in 0..MaxMessages }

\* the translator applied to the message list drawn by InitMessages
ApplyMessages ==
    /\ fnIn.fn = "messages"
    /\ fnOut = Absent
    /\ fnOut' = Some(transformOpenAIMessagesToGeminiContents(fnIn.messages))
    /\ UNCHANGED <<kvVars, reqVars, rotVars, streamVars, finVars, callVars, opVars, connVars, fnIn>>

InitMessages ==
    /\ StoreIdle
    /\ ReqIdle
    /\ StreamIdle
    /\ FinishIdle
    /\ fnIn \in [fn : {"messages"}, messages : MessageLists]
    /\ fnOut = Absent
    /\ dc = Connected
    /\ cl = [c \in Callers |-> NoCall]
    /\ ops = NoOps

NextMessages == ApplyMessages

SpecMessages == InitMessages /\ [][NextMessages]_vars

\* the messages of the list that are not system messages, in order
RECURSIVE NonSystem(_)
NonSystem(messages) ==
    IF messages = <<>> THEN <<>>
    ELSE (IF Head(messages).role = "system" THEN <<>> ELSE << Head(messages) >>)
         \o NonSystem(Tail(messages))
\* the text parts of the system messages of the list, in order
RECURSIVE SystemTexts(_)
SystemTexts(messages) ==
    IF messages = <<>> THEN <<>>
    ELSE (IF Head(messages).role = "system"
          THEN << [kind |-> "text", v |-> Head(messages).content[1].s] >> ELSE <<>>)
         \o SystemTexts(Tail(messages))

\* C32 (Message translation), as claimed: the system messages are all
\* collected into the one systemInstruction and none is in contents; the
\* other messages give one Content each, in order: an assistant message one
\* with role model (holding one empty-text Part when it has neither content
\* nor tool_calls), a tool message one with role function holding one
\* functionResponse Part, a user message one with role user.
MessageTranslation ==
    (fnIn.fn = "messages" /\ fnOut # Absent) =>
        LET r == fnOut[1]
            others == NonSystem(fnIn.messages)
            texts == SystemTexts(fnIn.messages)
        IN /\ texts # <<>> =>
                 /\ r.systemInstruction # Absent
                 /\ r.systemInstruction[1].parts = texts
           /\ Len(r.contents) = Len(others)
           /\ \A k \in 1..Len(others) :
                 k <= Len(r.contents) =>
                    LET msg == others[k]
                        c == r.contents[k]
                    IN /\ msg.role = "assistant" =>
                             /\ c.role = "model"
                             /\ (msg.content \in {Absent, <<JsNull>>} /\ msg.tool_calls = Absent)
                                   => c.parts = << [kind |-> "text", v |-> ""] >>
                       /\ msg.role = "tool" =>
                             /\ c.role = "function"
                             /\ Len(c.parts) = 1
                             /\ c.parts[1].kind = "functionResponse"
                       /\ msg.role = "user" => c.role = "user"

\* C26 (Usage is held for the flush step), as claimed: in a completed stream,
\* the usage of the last native chunk that carried usageMetadata appears on
\* some frame; and when that chunk had candidates none of which got a finish
\* reason, the frame is a chunk with choices [] placed just before [DONE].
UsageChunks == {k \in 1..Len(fed) : fed[k].usageMetadata.present}

LastUsageChunk == CHOOSE k \in UsageChunks : \A j \in UsageChunks : j <= k

NoChoiceFinished(chunk) ==
    /\ Len(chunk.candidates) > 0
    /\ \A i \in 1..Len(chunk.candidates) :
          ~Truthy(geminiFinishReasonToOpenAI(chunk.candidates[i].finishReason,
                                             chunk.candidates[i].parts))

UsageHeldForFlush ==
    (phase = "closed" /\ UsageChunks # {}) =>
        LET chunk == fed[LastUsageChunk]
            usage == transformGeminiUsageToOpenAI(chunk.usageMetadata)
        IN /\ \E j \in 1..Len(out) : out[j].kind = "chunk" /\ out[j].usage = usage
           /\ NoChoiceFinished(chunk) =>
                 /\ Len(out) >= 2
                 /\ out[Len(out) - 1] = ChunkFrame(<<>>, usage)
                 /\ out[Len(out)] = DoneFrame

\* C27 (Flush order): the frames flush adds to a completed stream are,
\* first, for every choice index with a recorded finish reason and no prelude
\* sent, in index order, one chunk with delta {role:"assistant"} and that
\* finish reason; then the choices [] chunk with the usage when usage is
\* pending; then [DONE], the last frame.
SyntheticIndexes == {i \in ChoiceIndexes : tr.isFirst[i] = Some(TRUE) /\ Truthy(tr.acc[i])}

FlushOrder ==
    phase = "closed" =>
        LET n == Cardinality(SyntheticIndexes)
            u == IF tr.finalUsageData.present THEN 1 ELSE 0
            base == Len(out) - (n + u + 1)
        IN /\ base >= 0
           /\ \A i \in SyntheticIndexes :
                 LET f == out[base + 1 + Cardinality({j \in SyntheticIndexes : j < i})]
                 IN /\ f.kind = "chunk"
                    /\ f.choices = <<Choice(i, RoleOnlyDelta, tr.acc[i])>>
           /\ u = 1 => /\ out[base + n + 1].kind = "chunk"
                       /\ out[base + n + 1].choices = <<>>
                       /\ out[base + n + 1].usage = tr.finalUsageData
           /\ out[Len(out)] = DoneFrame

\* the upstream yielded one candidate with a finish reason and no Part and
\* completed: flush added the synthetic chunk of choice 0 and then [DONE]
FlushOrderWitness ==
    /\ phase = "closed"
    /\ Len(fed) = 1
    /\ SyntheticIndexes = {0}
    /\ Len(out) >= 2
    /\ out[Len(out) - 1].kind = "chunk"
    /\ out[Len(out) - 1].choices = <<Choice(0, RoleOnlyDelta, "stop")>>
    /\ out[Len(out)] = DoneFrame

\* C28 (Prompt block): every native chunk without candidates whose
\* promptFeedback has a blockReason, once the transformer is given it, yields
\* exactly one chunk for choice 0 with delta {} and finish_reason
\* "content_filter", emitted as the last frame so far; choice 0 is closed from
\* then on (a finish reason recorded, no prelude awaited), and flush adds no
\* chunk for choice 0.
IsBlockChunk(chunk) == chunk.candidates = <<>> /\ chunk.promptFeedback = "block"

BlockChunks == {k \in 1..pipe.xf : IsBlockChunk(fed[k])}

IsBlockFrame(f) ==
    /\ f.kind = "chunk"
    /\ f.choices = <<Choice(0, EmptyDelta, "content_filter")>>
    /\ f.usage = NullUsage

IsSyntheticFor(f, i) ==
    /\ f.kind = "chunk"
    /\ Len(f.choices) = 1
    /\ f.choices[1].index = i
    /\ f.choices[1].delta = RoleOnlyDelta
    /\ f.choices[1].finish_reason # NoKey

PromptBlock ==
    /\ phase \in {"open", "closed"} =>
          Cardinality({j \in 1..Len(out) : IsBlockFrame(out[j])}) = Cardinality(BlockChunks)
    /\ Cardinality({j \in 1..Len(out) : IsBlockFrame(out[j])}) <= Cardinality(BlockChunks)
    /\ (phase = "open" /\ pipe.xf \in BlockChunks) => IsBlockFrame(out[Len(out)])
    /\ BlockChunks # {} =>
          /\ tr.isFirst[0] = Some(FALSE)
          /\ tr.acc[0] # NoKey
          /\ \A j \in 1..Len(out) : ~IsSyntheticFor(out[j], 0)

\* the upstream yielded only a blocked prompt and completed: the
\* content_filter chunk and [DONE]
PromptBlockWitness ==
    /\ phase = "closed"
    /\ Len(fed) = 1
    /\ IsBlockChunk(fed[1])
    /\ Len(out) = 2
    /\ IsBlockFrame(out[1])
    /\ out[2] = DoneFrame

\* the frames that carry a chunk with a non-null finish_reason for choice i
TerminalFrames(i) ==
    {k \in 1..Len(out) :
        /\ out[k].kind = "chunk"
        /\ \E c \in 1..Len(out[k].choices) :
              /\ out[k].choices[c].index = i
              /\ out[k].choices[c].finish_reason # NoKey}

\* C35 (One terminal chunk per choice), as claimed: the frames of one
\* alt-chat stream hold at most one chunk with a non-null finish_reason for
\* each choice index, also for a candidate whose finishReason arrives on a
\* chunk with no text and no tool calls.
OneTerminalChunk ==
    \A i \in ChoiceIndexes : Cardinality(TerminalFrames(i)) <= 1

\* the frames that carry a usage object
FramesWithUsage ==
    {k \in 1..Len(out) : out[k].kind = "chunk" /\ out[k].usage.present}

\* C36 (Usage emitted at most once), as claimed: whatever the native chunks
\* (any number of candidates per chunk, usageMetadata on any of them), at most
\* one frame of an alt-chat stream carries a usage object.
UsageAtMostOnce == Cardinality(FramesWithUsage) <= 1

\* the choices of frame k for choice index i
ChoicesFor(k, i) ==
    IF out[k].kind # "chunk" THEN {}
    ELSE {out[k].choices[c] : c \in {d \in 1..Len(out[k].choices) :
                                         out[k].choices[d].index = i}}
\* a choice that carries content or tool_calls
CarriesContent(ch) ==
    \/ ch.delta.content \notin {Missing, NoKey, ""}
    \/ ch.delta.tool_calls # <<>>

\* C37 (Prelude precedes content), as claimed: for every choice index, a
\* chunk that carries content or tool_calls comes after the role prelude chunk
\* of that index (delta {role:"assistant"}, finish_reason null) and after no
\* chunk with a non-null finish_reason for that index.
PreludePrecedesContent ==
    \A i \in ChoiceIndexes : \A k \in 1..Len(out) :
        (\E ch \in ChoicesFor(k, i) : CarriesContent(ch)) =>
            /\ \E j \in 1..(k - 1) :
                  \E pre \in ChoicesFor(j, i) :
                     pre.delta = RoleOnlyDelta /\ pre.finish_reason = NoKey
            /\ \A j \in 1..(k - 1) :
                  \A ch \in ChoicesFor(j, i) : ch.finish_reason = NoKey

(***************************************************************************)
(* A pool-mode request whose successful response is an alt-chat stream     *)
(* (handler.ts 175-180, part_001 97-119): the stream is built, and its     *)
(* first pull made, inside executeApiCall, before the handler returns the  *)
(* response                                                                *)
(***************************************************************************)
\* part_001 lines 99-114: the upstream call of the attempt in progress has
\* answered with an iterator and the stream is built on it; its start makes
\* the first pull
StreamOpen ==
    /\ pc = "call"
    /\ mode = "pool"
    /\ rq.local = 0
    /\ phase = "idle"
    /\ phase' = "open"
    /\ UNCHANGED <<kvVars, reqVars, rotVars, finVars, callVars, opVars, pureVars, connVars, tr, fed, out, pipe, iter>>

\* the chunks of a text answer: text, and text with STOP and usage
StreamedChunks ==
    { Chunk(<<Candidate(<<TextPart("he")>>, NoKey)>>, "none", NoUsage),
      Chunk(<<Candidate(<<TextPart("llo")>>, "STOP")>>, "none", UsageS3) }

StreamedPull == PullChunk /\ fed'[Len(fed')] \in StreamedChunks

InitStreamed ==
    /\ kvTrigger \in TriggerKeys
    /\ kvPool = RecordOf(<<"A", "B">>)
    /\ kvIndex = NoIndex
    /\ kvFallback = NoKey
    /\ kvModels = {"gemini-pro-preview"}
    /\ kvThreshold = MaxBudget
    /\ cache = TriggerCached(kvTrigger)
    /\ allocLog = <<>>
    /\ ReqIdle
    /\ StreamIdle
    /\ FinishIdle
    /\ FnIdle

NextStreamed ==
    \/ NextPool
    \/ StreamOpen
    \/ StreamedPull
    \/ TransformChunk
    \/ ClientRead
    \/ PullDone
    \/ PipeClose
    \/ PullThrow
    \/ PipeAbort
    \/ Cancel

SpecStreamed == InitStreamed /\ [][NextStreamed]_vars

\* the transformer's fields and frames after the chunks of a sequence
RECURSIVE Replay(_)
Replay(chunks) ==
    IF chunks = <<>>
    THEN [isFirst |-> NewTransformer.isFirst,
          finalUsageData |-> NewTransformer.finalUsageData,
          acc |-> NewTransformer.acc, out |-> <<>>]
    ELSE transform(Replay(SubSeq(chunks, 1, Len(chunks) - 1)), chunks[Len(chunks)])

\* C29 as stated (Mid-stream error): when the upstream iterator throws after
\* k chunks, the response stream is errored after the frames derived from
\* those k chunks, all of them.
MidStreamError ==
    phase = "errored" => out = Replay(fed).out

\* C29 as the code has it: when the upstream iterator throws after k chunks,
\* the k chunks are all transformed and the response stream is errored after
\* the first frames derived from them: the frames the client has read and at
\* most one more, the frames still queued being discarded; no frame of flush,
\* no [DONE] and no trailing usage chunk is on it; and the request makes no
\* call beyond the one whose response is the stream.
MidStreamErrorPrefix ==
    phase = "errored" =>
        /\ pipe.xf = Len(fed)
        /\ IsPrefix(out, Replay(fed).out)
        /\ pipe.read <= Len(out)
        /\ Len(out) <= pipe.read + 1
        /\ Replay(fed).out # <<>> => out # <<>>
        /\ \A j \in 1..Len(out) : out[j].kind = "chunk" /\ out[j].choices # <<>>
        /\ pc \in {"call", "done"}
        /\ pc = "done" =>
              /\ Len(calls) >= 1
              /\ resp[1].body = Len(calls)
              /\ calls[Len(calls)].status = 200
              /\ \A i \in 1..(Len(calls) - 1) : calls[i].status # 200

\* the first credential's call returned the stream and the iterator threw
\* after one chunk, with budget and a credential left to try; of the two
\* frames of the chunk the client, which had read neither, gets the first
MidStreamErrorWitness ==
    /\ phase = "errored"
    /\ pc = "done"
    /\ Len(fed) = 1
    /\ Len(Replay(fed).out) = 2
    /\ Len(out) = 1
    /\ pipe.read = 0
    /\ Len(calls) = 1
    /\ hs.count < hs.limit
    /\ Len(kvPool) = 2

(***************************************************************************)
(* Native streaming: routes.ts lines 65-98, iterableToReadableStream piped *)
(* through the SSE transformer                                             *)
(***************************************************************************)
\* lines 83-84: `data: ${JSON.stringify(chunk)}\n\n`
NativeFrame(chunk) == [kind |-> "native", data |-> chunk]

\* the chunks of the streams whose order is followed: text, text with STOP
\* and usage, the two-candidate chunks, and a blocked prompt
OrderChunks ==
    StreamedChunks \cup {c \in Chunks : Len(c.candidates) = 2 \/ c.promptFeedback = "block"}

\* lines 77-92: the pipe hands the next chunk to the SSE transformer, once
\* the frames enqueued before have been read
NativeTransform ==
    /\ phase = "native"
    /\ Ahead > 0
    /\ pipe.read = Len(out)
    /\ out' = enqueue(out, NativeFrame(fed[pipe.xf + 1]))
    /\ pipe' = [pipe EXCEPT !.xf = @ + 1]
    /\ UNCHANGED <<kvVars, reqVars, rotVars, finVars, callVars, opVars, pureVars, connVars, tr, fed, phase, iter>>

\* the source being closed and its chunks framed, the pipe closes the SSE
\* transformer, which has no flush
NativeClose ==
    /\ phase = "native"
    /\ iter = "done"
    /\ Ahead = 0
    /\ phase' = "closed"
    /\ UNCHANGED <<kvVars, reqVars, rotVars, finVars, callVars, opVars, pureVars, connVars, tr, fed, out, pipe, iter>>

\* a stream of either kind: alt-chat ("open") or native ("native")
InitOrder ==
    /\ StoreIdle
    /\ ReqIdle
    /\ FinishIdle
    /\ FnIdle
    /\ tr = NewTransformer
    /\ fed = <<>>
    /\ out = <<>>
    /\ pipe = NoPipe
    /\ phase \in {"open", "native"}
    /\ iter = "open"

OrderPull == PullChunk /\ fed'[Len(fed')] \in OrderChunks

NextOrder ==
    \/ OrderPull
    \/ TransformChunk
    \/ NativeTransform
    \/ ClientRead
    \/ PullDone
    \/ PipeClose
    \/ NativeClose
    \/ PullThrow
    \/ PipeAbort
    \/ Cancel

SpecOrder == InitOrder /\ [][NextOrder]_vars

\* C30 (Order preservation): the frames derived from the first k native
\* chunks are the first frames of the stream, for every k, so that every frame
\* of an earlier chunk precedes every frame of a later one; the frames of one
\* chunk come in increasing candidate index; a native stream has one frame per
\* chunk, in the chunks' order.
IsNativeStream == phase = "native" \/ (out # <<>> /\ out[1].kind = "native")

\* the frames derived from the first k chunks, for every k
FramesOf == [k \in 0..Len(fed) |-> Replay(SubSeq(fed, 1, k)).out]

OrderPreserved ==
    IF IsNativeStream
    THEN /\ Len(out) <= pipe.xf
         /\ phase \in {"native", "closed"} => Len(out) = pipe.xf
         /\ \A k \in 1..Len(out) : out[k] = NativeFrame(fed[k])
    ELSE LET frames == FramesOf
         IN /\ phase = "open" => out = frames[pipe.xf]
            /\ \A k \in 1..pipe.xf :
                  /\ IsPrefix(frames[k - 1], frames[k])
                  /\ IsPrefix(frames[k], out) \/ IsPrefix(out, frames[k])
                  /\ phase = "closed" => IsPrefix(frames[k], out)
                  /\ \A a, b \in (Len(frames[k - 1]) + 1)..Len(frames[k]) :
                        a < b => frames[k][a].choices[1].index
                                    <= frames[k][b].choices[1].index

\* an alt-chat stream of a two-candidate chunk and a one-candidate chunk:
\* choice 0's frames, choice 1's frame, then the second chunk's frame
OrderPreservedWitness ==
    /\ phase = "open"
    /\ Len(fed) = 2
    /\ Len(fed[1].candidates) = 2
    /\ Len(out) = 4
    /\ out[2].choices[1].index = 0
    /\ out[3].choices[1].index = 1
    /\ out[4].choices[1].index = 0
    /\ out[4].choices[1].delta.content = "llo"

\* C15 (Resource cleanup), as claimed: once the stream has ended, by the
\* upstream being exhausted, by the upstream iterator throwing or by the
\* consumer cancelling, the upstream iterator was drained to done or had its
\* return() invoked.
ResourceCleanup ==
    phase \in {"closed", "errored", "cancelled"} => iter \in {"done", "returned"}

(***************************************************************************)
(* kv_manager.ts: getNextAvailableApiKey called concurrently               *)
(***************************************************************************)
\* a fixed pool of distinct credentials, any stored cursor, no call in progress
InitAlloc ==
    /\ kvTrigger = NoKey
    /\ kvPool \in DistinctPools(MaxPool)
    /\ kvIndex \in NoIndex..MaxCursor
    /\ kvFallback = NoKey
    /\ kvModels = {}
    /\ kvThreshold = 0
    /\ cache = EmptyCache
    /\ allocLog = <<>>
    /\ ReqIdle
    /\ StreamIdle
    /\ FinishIdle
    /\ FnIdle

\* the callers call again and again
NextAlloc == \E c \in Callers : CallerStep(c)

SpecAlloc == InitAlloc /\ [][NextAlloc]_vars

\* each caller keeps taking its steps
SpecAllocFair == SpecAlloc /\ \A c \in Callers : WF_vars(CallerStep(c))

\* each caller makes one call: a commit fails only when another call committed
\* in between, so with NCallers calls the non-atomic read is out of reach
NextAllocOnce ==
    \E c \in Callers :
        \/ CallGet(c)
        \/ CallStart(c)
        \/ CallRead(c)
        \/ CallCommit(c)

SpecAllocOnce == InitAlloc /\ [][NextAllocOnce]_vars

\* the administrator changes the pool while the callers call again and again
MaxChurnPool == 2
ChurnCreds == {CredNames[i] : i \in 1..MaxChurnPool}

InitChurn ==
    /\ kvTrigger = NoKey
    /\ kvPool \in {RecordOf(<<>>), RecordOf(<<"A", "B">>)}
    /\ kvIndex \in {NoIndex, MaxChurnPool}
    /\ kvFallback = NoKey
    /\ kvModels = {}
    /\ kvThreshold = 0
    /\ cache = EmptyCache
    /\ allocLog = <<>>
    /\ ReqIdle
    /\ StreamIdle
    /\ FinishIdle
    /\ FnIdle

NextChurn ==
    \/ \E c \in Callers : CallerStep(c)
    \/ \E w \in Writers, key \in ChurnCreds : AdminAdd(w, key)
    \/ \E w \in Writers, key \in ChurnCreds : AdminRemove(w, key)
    \/ \E w \in Writers : clearAllApiKeys(w)
    \/ \E w \in Writers : EditStep(w)

SpecChurn == InitChurn /\ [][NextChurn]_vars

\* C21 (Bounded CAS with non-atomic fallback): a call on a non-empty pool
\* makes at most 5 compare-and-set attempts; when one commits, the cursor
\* written is one position (modulo the pool size) after the position found
\* stored and the credential at that position is returned; when all 5 fail,
\* the call returns the credential of its pool at the cursor then stored and
\* has written nothing.
BoundedCas ==
    \A c \in Callers :
        LET call == cl[c]
            len == Len(call.keys)
            at == ActualIndex(call.stored, len)
        IN /\ call.attempts <= 5
           /\ (call.pc = "done" /\ len > 0) =>
                 /\ call.ret = call.keys[at + 1]
                 /\ IF call.committed
                    THEN call.wrote = (at + 1) % len
                    ELSE /\ call.attempts = 5
                         /\ call.wrote = NoIndex
                         /\ call.ret \in Range(call.keys)

\* a call lost 5 commits to the other caller and returned a credential
\* without committing, while another call committed on its first attempt
BoundedCasWitness ==
    \E c, d \in Callers :
        /\ cl[c].pc = "done"
        /\ ~cl[c].committed
        /\ cl[c].attempts = 5
        /\ cl[c].ret \in Range(ObjectValues(kvPool))
        /\ cl[d].pc = "done"
        /\ cl[d].committed
        /\ cl[d].attempts = 1

\* C22 (No duplicate allocation between committed callers): on a pool of at
\* least 2 distinct credentials, when two concurrently running calls have both
\* committed, one of them committed from the cursor the other wrote (never both
\* from the same cursor version), and they returned the credentials at
\* consecutive positions, which differ.
NoDuplicateAllocation ==
    \A c, d \in Callers :
        (/\ c # d
         /\ Len(kvPool) >= 2
         /\ cl[c].pc = "done" /\ cl[c].committed
         /\ cl[d].pc = "done" /\ cl[d].committed) =>
            LET len == Len(kvPool)
                atC == ActualIndex(cl[c].stored, len)
                atD == ActualIndex(cl[d].stored, len)
            IN /\ cl[d].stored = cl[c].wrote \/ cl[c].stored = cl[d].wrote
               /\ atD = (atC + 1) % len \/ atC = (atD + 1) % len
               /\ cl[c].ret # cl[d].ret

\* both calls read the same cursor entry of a pool of 3; one of them lost
\* its first commit and committed on its second attempt
NoDuplicateAllocationWitness ==
    /\ Len(kvPool) = 3
    /\ cl[1].pc = "done" /\ cl[1].committed /\ cl[1].attempts = 2
    /\ cl[2].pc = "done" /\ cl[2].committed /\ cl[2].attempts = 1
    /\ cl[1].ret # cl[2].ret

\* C23 (Cursor range and wrap): whatever addApiKeys, removeApiKey,
\* clearAllApiKeys and getNextAvailableApiKey calls came before, a call on a
\* non-empty pool returns a member of the pool it read; when the cursor it
\* found stored is absent or outside that pool it returns the credential at
\* position 0; and the cursor a committed call writes is at least 0 and less
\* than the size of that pool.
CursorInRange(i, len) == i >= 0 /\ i < len

CursorRangeAndWrap ==
    \A c \in Callers :
        LET call == cl[c]
            len == Len(call.keys)
        IN (call.pc = "done" /\ len > 0) =>
              /\ call.ret \in Range(call.keys)
              /\ call.ret = call.keys[IF CursorInRange(call.stored, len)
                                      THEN call.stored + 1 ELSE 1]
              /\ call.committed => CursorInRange(call.wrote, len)

\* the pool shrank to 2 credentials under a stored cursor of 2, and the next
\* call returned the first credential and wrote cursor 1
CursorRangeAndWrapWitness ==
    /\ cl[1].pc = "done"
    /\ cl[1].committed
    /\ Len(cl[1].keys) = 2
    /\ cl[1].stored = 2
    /\ cl[1].ret = cl[1].keys[1]
    /\ cl[1].wrote = 1
    /\ ObjectValues(kvPool) = cl[1].keys

\* C24 (No credential omitted permanently): on a fixed non-empty pool, with
\* every caller that can take a step eventually taking one, each credential of
\* the pool is returned by some call again and again.
ReturnedNow(k) == \E c \in Callers : cl[c].pc = "done" /\ cl[c].ret = k

NoCredentialOmitted ==
    \A k \in PoolCreds : []<>(k \in Range(ObjectValues(kvPool)) => ReturnedNow(k))

\* the last credential of a pool of 3 is returned by a call that lost a
\* commit first, while the other caller holds the credential before it
NoCredentialOmittedWitness ==
    /\ Len(kvPool) = 3
    /\ cl[1].pc = "done" /\ cl[1].ret = kvPool[3].key /\ cl[1].attempts > 1
    /\ cl[2].pc = "done" /\ cl[2].ret = kvPool[2].key

(***************************************************************************)
(* kv_manager.ts: the cached getters and their setters, step by step.  A   *)
(* getter tests the cache, and on a miss awaits kv.get and then caches and *)
(* returns what it read; a setter awaits kv.set (or kv.delete) and then    *)
(* clears the cache entry.  Other calls run at each await.                 *)
(***************************************************************************)
CacheKeys == {"threshold", "fallback", "models"}

\* get, up to its return or its await of kv.get; the value read from the
\* store is the one the await resolves to
GetStart(r, k) ==
    /\ ops.rd[r].pc = "idle"
    /\ ops' = [ops EXCEPT !.rd[r] =
                 IF ReturnsCached(k)
                 THEN [pc |-> "done", key |-> k, value |-> Cached(k),
                       quiet |-> NoWriteInProgress(k)]
                 ELSE [pc |-> "read", key |-> k, value |-> StoreRead(k),
                       quiet |-> NoWriteInProgress(k)]]
    /\ UNCHANGED <<kvVars, reqVars, rotVars, streamVars, finVars, callVars, pureVars, connVars>>

\* get, after the await: setCache(key, value); return value
GetFinish(r) ==
    /\ ops.rd[r].pc = "read"
    /\ cache' = setCache(cache, ops.rd[r].key, ops.rd[r].value)
    /\ ops' = [ops EXCEPT !.rd[r].pc = "done"]
    /\ UNCHANGED <<kvTrigger, kvPool, kvIndex, kvFallback, kvModels, kvThreshold>>
    /\ UNCHANGED <<reqVars, rotVars, streamVars, finVars, callVars, pureVars, connVars>>

\* the caller has its value and may call again
GetReturn(r) ==
    /\ ops.rd[r].pc = "done"
    /\ ops' = [ops EXCEPT !.rd[r] = NoGet]
    /\ UNCHANGED <<kvVars, reqVars, rotVars, streamVars, finVars, callVars, pureVars, connVars>>

InitCache ==
    /\ kvTrigger = NoKey
    /\ kvPool = RecordOf(<<"A">>)
    /\ kvIndex = NoIndex
    /\ kvFallback \in FallbackKeys \cup {NoKey}
    /\ kvModels = {"gemini-pro-preview"}
    /\ kvThreshold \in 0..MaxBudget
    /\ cache = EmptyCache
    /\ allocLog = <<>>
    /\ ReqIdle
    /\ StreamIdle
    /\ FinishIdle
    /\ FnIdle

NextCache ==
    \/ \E r \in Readers, k \in CacheKeys : GetStart(r, k)
    \/ \E r \in Readers : GetFinish(r)
    \/ \E r \in Readers : GetReturn(r)
    \/ \E w \in Writers, k \in CacheKeys : \E v \in SetValues(k) : SetWrite(w, k, v)
    \/ \E w \in Writers, name \in ModelNames : addSecondaryPoolModelNames(w, name)
    \/ \E w \in Writers, name \in ModelNames : removeSecondaryPoolModelName(w, name)
    \/ \E w \in Writers : clearAllForwardingData(w)
    \/ \E w \in Writers : WipeDelete(w)
    \/ \E w \in Writers : EditResume(w)
    \/ \E w \in Writers : EditWrite(w)
    \/ \E w \in Writers : EditDone(w)

SpecCache == InitCache /\ [][NextCache]_vars

\* C38 (Config cache coherence), as claimed: a get of a cached entry that
\* starts when no set of that entry is in progress, and that no set overlaps,
\* returns the value now stored, whatever gets were in progress during the
\* last set.
CacheCoherent ==
    \A r \in Readers :
        (ops.rd[r].pc = "done" /\ ops.rd[r].quiet) =>
            ops.rd[r].value =
                (CASE ops.rd[r].key = "threshold" ->
                          IF kvThreshold = 0 THEN 5 ELSE kvThreshold
                   [] ops.rd[r].key = "fallback" -> kvFallback
                   [] ops.rd[r].key = "models" -> kvModels)

====
